---- MODULE Spec2Model ----
(***************************************************************************)
(* MacroTrack: the meal-logging path of the API (api/meals/index and       *)
(* api/meals/daily/[date]) over the MealEntry collection, with the         *)
(* MealEntry pre-save aggregation hook and the goal-progress helper.       *)
(*                                                                         *)
(* Numbers.  Nutrition values are JavaScript numbers in the source.  Here  *)
(* every quantity is an integer count of thousandths (0.001 kcal or        *)
(* 0.001 g), so that the rounding to two decimals done by                  *)
(* calculateGoalProgress is visible.  Percentages are plain integers.      *)
(* Sums are exact; binary floating-point error is not modelled.            *)
(*                                                                         *)
(* Store.  MealEntry documents live in `store`, a sequence in insertion    *)
(* order; a document's _id is its index.  save() of a new document is an   *)
(* insert checked against the unique index {userId, date}; save() of a     *)
(* loaded document replaces the stored document with that _id by the       *)
(* document held in memory (document-granularity write, the store          *)
(* interface of spec section 6).                                           *)
(*                                                                         *)
(* Requests.  Meal requests use POST and a date that is not in the future, *)
(* so a completed request answers 201.  Under Spec and SeqSpec every meal  *)
(* request carries a valid token and a body that passes mealSchema and the *)
(* FoodSchema validators; MealSpec adds bodies that mealSchema or the      *)
(* FoodSchema validators reject, and ApiSpec covers the requests answered  *)
(* in one step: api/auth/me, api/foods/search, api/foods/[id] and the 401  *)
(* answer of every protected route.                                        *)
(*                                                                         *)
(* Other parts, each with a specification of its own over variables the    *)
(* meal handlers never touch: api/auth/register and api/auth/login over    *)
(* the User collection with the User pre-save hooks (AuthSpec); the        *)
(* BMR/TDEE methods of the User model and the frontend's calculators       *)
(* (CalcSpec); the dashboard's MacroRing (RingSpec); connectDB and its     *)
(* cached connection (ConnSpec); the AuthProviders of the frontend with    *)
(* their reducers (UiAuthSpec); FoodSearch and MealLogger of the frontend  *)
(* (LoggerSpec).                                                           *)
(***************************************************************************)
EXTENDS Integers, Sequences, FiniteSets, TLC

\* ------------------------------------------------------------------ bounds
\* Distinct times of day at which a request can date a meal of day 1.
NumTimes == 2

\* Two client sessions, each issuing one addOrReplaceMeal request; the two
\* requests may overlap in any way.
Sessions == {1, 2}

\* mongoose.connect attempts the process makes at most.
MaxAttempts == 3

\* Foods the MealLogger's list holds at most before the meal is saved.
MaxFoods == 2

\* ------------------------------------------------------------- input sets
Milli(x) == x * 1000

UserIds == {"u1"}

\* mealType enum of mealSchema / MealSchema
MealTypes == {"breakfast", "lunch", "dinner", "snack"}

\* A date is a calendar day plus a time of day (a JavaScript Date keeps both).
\* Day 1 can be addressed at any of the times, day 2 at the first one.
Dates ==
  { [day |-> 1, time |-> t] : t \in 1..NumTimes } \cup { [day |-> 2, time |-> 1] }

\* Goals of the registered user (dailyCalories in [800, 10000], macro
\* targets >= 0): a low-carbohydrate plan with no fat target, so that a
\* target of 0 and a total above its target both occur.
UserGoals ==
  [dailyCalories |-> Milli(2000),
   macroTargets |-> [protein |-> Milli(150), carbohydrates |-> Milli(50), fat |-> 0]]

Nutrition(c, p, ch, f, fi) ==
  [calories |-> c, protein |-> p, carbohydrates |-> ch, fat |-> f, fiber |-> fi]

\* Foods a client can submit.  actualNutrition is taken from the request
\* body as sent (mealSchema only requires each value to be >= 0).
Oatmeal ==
  [name |-> "oatmeal", amount |-> Milli(100), unit |-> "grams",
   nutritionPer100g |-> Nutrition(Milli(300), Milli(10), Milli(54), Milli(5), Milli(8)),
   actualNutrition  |-> Nutrition(Milli(300), Milli(10), Milli(54), Milli(5), Milli(8))]

Eggs ==
  [name |-> "eggs", amount |-> Milli(200), unit |-> "grams",
   nutritionPer100g |-> Nutrition(Milli(200), Milli(12) + 500, Milli(1), Milli(15), 0),
   actualNutrition  |-> Nutrition(Milli(400), 24996, Milli(2), Milli(30) + 4, 0)]

FoodLists == { <<>>, <<Oatmeal>>, <<Eggs>>, <<Oatmeal, Eggs>> }

\* unit enum of FoodSchema
Units == {"grams", "cups", "pieces", "tablespoons", "teaspoons", "ounces", "pounds"}

\* Foods a client can submit that a validator rejects: 0.05 g is below the
\* minimum of mealSchema and FoodSchema, 10000.001 g is above the maximum of
\* FoodSchema, "handful" is not a unit of the FoodSchema enum.
TinyAmount == [Oatmeal EXCEPT !.name = "crumb", !.amount = 50]

HugeAmount == [Oatmeal EXCEPT !.name = "silo", !.amount = Milli(10000) + 1]

BadUnit == [Oatmeal EXCEPT !.name = "nuts", !.unit = "handful"]

\* Bodies that mealSchema.parse rejects.
UnparsableLists == { <<TinyAmount>>, <<Oatmeal, TinyAmount>> }

\* Bodies that mealSchema.parse accepts and MealEntry validation rejects.
UnsavableLists == { <<HugeAmount>>, <<BadUnit>>, <<Eggs, HugeAmount>> }

\* --------------------------------------------------------------- helpers
NullDoc == [null |-> TRUE]

ZeroMealTotals == Nutrition(0, 0, 0, 0, 0)

ZeroDailyTotals ==
  [calories |-> 0, protein |-> 0, carbohydrates |-> 0, fat |-> 0, fiber |-> 0,
   sugar |-> 0, sodium |-> 0, potassium |-> 0, calcium |-> 0, iron |-> 0]

Max(a, b) == IF a >= b THEN a ELSE b

\* Math.round(n / d) for n >= 0, d > 0: round half up.
RoundDiv(n, d) == (2 * n + d) \div (2 * d)

\* Math.round(actual * 100) / 100 on thousandths.
Round2(x) == RoundDiv(x, 10) * 10

\* Mutant: remaining computed without the Math.max(0, ...) floor.
calculateGoalProgress_Signed(actual, target) ==
  [target     |-> target,
   actual     |-> Round2(actual),
   percentage |-> IF target > 0 THEN RoundDiv(actual * 100, target) ELSE 0,
   remaining  |-> target - actual]

calculateGoalProgress(actual, target) ==
  [target     |-> target,
   actual     |-> Round2(actual),
   percentage |-> IF target > 0 THEN RoundDiv(actual * 100, target) ELSE 0,
   remaining  |-> Max(0, target - actual)]

\* The four calculateGoalProgress calls of the handler.
GoalProgressOf(totals, goals) ==
  [calories      |-> calculateGoalProgress(totals.calories, goals.dailyCalories),
   protein       |-> calculateGoalProgress(totals.protein, goals.macroTargets.protein),
   carbohydrates |-> calculateGoalProgress(totals.carbohydrates, goals.macroTargets.carbohydrates),
   fat           |-> calculateGoalProgress(totals.fat, goals.macroTargets.fat)]

\* meal.foods.reduce(...) of the pre-save hook.
RECURSIVE SumFoods(_)
SumFoods(foods) ==
  IF foods = <<>> THEN ZeroMealTotals
  ELSE LET t == SumFoods(SubSeq(foods, 1, Len(foods) - 1))
           n == foods[Len(foods)].actualNutrition
       IN  Nutrition(t.calories + n.calories, t.protein + n.protein,
                     t.carbohydrates + n.carbohydrates, t.fat + n.fat,
                     t.fiber + n.fiber)

\* Mutant: the hook leaves each meal's mealTotals as it finds them.
RefreshMeals_Keep(meals) == meals

\* Mutant: the hook adds the food sums to the mealTotals it finds.
RefreshMeals_Accumulate(meals) ==
  [i \in 1..Len(meals) |->
     [meals[i] EXCEPT !.mealTotals =
        [f \in DOMAIN meals[i].mealTotals |->
           meals[i].mealTotals[f] + SumFoods(meals[i].foods)[f]]]]

\* this.meals.forEach(meal => meal.mealTotals = calculatedTotals)
RefreshMeals(meals) ==
  [i \in 1..Len(meals) |-> [meals[i] EXCEPT !.mealTotals = SumFoods(meals[i].foods)]]

\* this.meals.reduce(...) of the pre-save hook.
RECURSIVE SumMeals(_)
SumMeals(meals) ==
  IF meals = <<>> THEN ZeroDailyTotals
  ELSE LET t == SumMeals(SubSeq(meals, 1, Len(meals) - 1))
           m == meals[Len(meals)].mealTotals
       IN  [calories      |-> t.calories + m.calories,
            protein       |-> t.protein + m.protein,
            carbohydrates |-> t.carbohydrates + m.carbohydrates,
            fat           |-> t.fat + m.fat,
            fiber         |-> t.fiber + m.fiber,
            sugar         |-> t.sugar,
            sodium        |-> t.sodium,
            potassium     |-> t.potassium,
            calcium       |-> t.calcium,
            iron          |-> t.iron]

\* Mutant: daily totals summed before the meals are refreshed.
PreSave_DailyFirst(doc) ==
  [doc EXCEPT !.meals = RefreshMeals(doc.meals), !.dailyTotals = SumMeals(doc.meals)]

\* Mutant: the extended fields of the daily totals take the calories.
PreSave_Extended(doc) ==
  LET ms == RefreshMeals(doc.meals)
      t  == SumMeals(ms)
  IN  [doc EXCEPT !.meals = ms,
                  !.dailyTotals = [t EXCEPT !.sugar = t.calories, !.sodium = t.calories,
                                            !.potassium = t.calories, !.calcium = t.calories,
                                            !.iron = t.calories]]

\* MealEntrySchema.pre('save')
PreSave(doc) ==
  LET ms == RefreshMeals(doc.meals)
  IN  [doc EXCEPT !.meals = ms, !.dailyTotals = SumMeals(ms)]


\* ------------------------------------------------------------ models/User
MacroNames == {"protein", "carbohydrates", "fat"}

\* Mutant: fat weighed at 4 kcal per gram like protein and carbohydrates.
UserPreSave_Fat4(goals, isModified) ==
  IF isModified
  THEN [dailyCalories |-> goals.dailyCalories,
        macroTargets |-> goals.macroTargets,
        macroPercentages |->
          [n \in MacroNames |-> RoundDiv(goals.macroTargets[n] * 4 * 100, goals.dailyCalories)]]
  ELSE goals

\* UserSchema.pre('save'), second hook: the macro percentages are recomputed
\* from the targets when goals.macroTargets or goals.dailyCalories is
\* modified (isModified), with 4 kcal per gram of protein and of
\* carbohydrates and 9 per gram of fat.  Targets and calories are both in
\* thousandths, so their quotient is the quotient of the source.
UserPreSave(goals, isModified) ==
  IF isModified
  THEN [dailyCalories |-> goals.dailyCalories,
        macroTargets |-> goals.macroTargets,
        macroPercentages |->
          [protein       |-> RoundDiv(goals.macroTargets.protein * 4 * 100, goals.dailyCalories),
           carbohydrates |-> RoundDiv(goals.macroTargets.carbohydrates * 4 * 100, goals.dailyCalories),
           fat           |-> RoundDiv(goals.macroTargets.fat * 9 * 100, goals.dailyCalories)]]
  ELSE goals

\* bcrypt.hash of the first pre('save') hook: the stored password is not the
\* plain one, and comparePassword accepts exactly the plain password it was
\* made from.
hash(password) == <<"bcrypt", password>>

comparePassword(candidatePassword, stored) == stored = hash(candidatePassword)

\* Validators of goals.macroPercentages (min/max of each path).
PercentagesValid(mp) ==
  /\ mp.protein >= 5 /\ mp.protein <= 50
  /\ mp.carbohydrates >= 10 /\ mp.carbohydrates <= 80
  /\ mp.fat >= 10 /\ mp.fat <= 60

\* Email addresses as character sequences: a@b.co, its upper-case spelling
\* A@b.co, b@b.co, c@b.co and ab.co, which is no address.
EmailA == <<"a", "@", "b", ".", "c", "o">>

EmailAUpper == <<"A", "@", "b", ".", "c", "o">>

EmailB == <<"b", "@", "b", ".", "c", "o">>

EmailC == <<"c", "@", "b", ".", "c", "o">>

EmailBad == <<"a", "b", ".", "c", "o">>

\* The user registered before the requests modelled here: the account of
\* u1, created by new User(...).save(), so hashed and with percentages set
\* by the hook.  lastLoginAt holds the request that wrote it last.
SeedUser ==
  [email |-> EmailA, password |-> hash("secret12"),
   goals |-> UserPreSave(UserGoals, TRUE), lastLoginAt |-> <<"created", 0>>]

\* ----------------------------------------------------------------- state
VARIABLES
  users,           \* userId -> goals of the stored User (User collection)
  store,           \* MealEntry collection: sequence of documents, _id = index
  lastSaver,       \* per document: the session whose save() wrote it last
  pc,              \* per session: position in the api/meals handler
  req,             \* per session: authenticated user and validated body
  userData,        \* per session: goals read by User.findById
  mealEntry,       \* per session: [id, doc] built after findOne (id 0 = new)
  savedMealEntry,  \* per session: document re-read by findById
  status,          \* per session: HTTP status of the response (0 = none yet)
  error,           \* per session: name of the error thrown ("" = none)
  reply,           \* response just sent by a request answered in one step
  summary,         \* response of api/meals/daily/[date] just sent (NullDoc
                   \* once the next handler step runs)
  accounts,        \* User collection as api/auth sees it: sequence of
                   \* documents with credentials, goals and lastLoginAt
  authReq,         \* per session: its api/auth request, position and answer
  calc,            \* the BMR/TDEE computation made last: function, arguments
                   \* and returned value
  ring,            \* the MacroRing rendered last: props and what it shows
  cached,          \* global.mongoose: [conn, promise] (promise 0 = null)
  attempt,         \* state of each mongoose.connect promise made so far
  caller,          \* per caller of connectDB: position, awaited promise,
                   \* returned connection
  microtasks,      \* callers whose await has settled, in the order in which
                   \* their continuations will run
  authState,       \* state of the authReducer of contexts/AuthContext
  localStorage,    \* the 'auth-token' item of the browser (NullDoc = none)
  authCalls,       \* login, register and checkAuthStatus of AuthProvider:
                   \* position, and the token checkAuthStatus has read
  appAuth,         \* state of the authReducer of the single-file frontend
  foodSearch,      \* state of the mounted FoodSearch (NullDoc = not shown):
                   \* selectedFood, amount, foodDetails, and the
                   \* getFoodDetails calls still to answer
  selectedFoods,   \* MealLogger: the foods of the meal being composed
  isLoading        \* MealLogger: handleSaveMeal is awaiting

\* State of api/auth/register and api/auth/login.
authVars == <<accounts, authReq>>

\* State of the metabolic calculators.
calcVars == <<calc>>

\* State of the dashboard's MacroRing.
ringVars == <<ring>>

\* State of lib/mongodb.
connVars == <<cached, attempt, caller, microtasks>>

\* State of the two frontend AuthProviders.
uiAuthVars == <<authState, localStorage, authCalls, appAuth>>

\* State of the MealLogger page.
loggerVars == <<foodSearch, selectedFoods, isLoading>>

\* State the meal and food handlers never touch.
sideVars == <<authVars, calcVars, ringVars, connVars, uiAuthVars, loggerVars>>

\* State of the meal and food handlers.
mealVars == <<users, store, lastSaver, pc, req, userData, mealEntry,
              savedMealEntry, status, error, reply, summary>>

vars == <<mealVars, sideVars>>

\* What each part of the program leaves alone.
nonAuthVars == <<mealVars, calcVars, ringVars, connVars, uiAuthVars, loggerVars>>

nonCalcVars == <<mealVars, authVars, ringVars, connVars, uiAuthVars, loggerVars>>

nonRingVars == <<mealVars, authVars, calcVars, connVars, uiAuthVars, loggerVars>>

nonConnVars == <<mealVars, authVars, calcVars, ringVars, uiAuthVars, loggerVars>>

nonUiAuthVars == <<mealVars, authVars, calcVars, ringVars, connVars, loggerVars>>

nonLoggerVars == <<mealVars, authVars, calcVars, ringVars, connVars, uiAuthVars>>

\* mealSchema.parse on the foods of the body: amount >= 0.1 and every
\* nutrition value >= 0; unit is any string.
mealSchema(foods) ==
  \A k \in 1..Len(foods) :
    /\ foods[k].amount >= 100
    /\ \A f \in DOMAIN foods[k].nutritionPer100g : foods[k].nutritionPer100g[f] >= 0
    /\ \A f \in DOMAIN foods[k].actualNutrition : foods[k].actualNutrition[f] >= 0

\* Mutant: FoodSchema accepts any amount and any unit.
FoodSchema_Any(food) == TRUE

\* FoodSchema validators: amount in [0.1, 10000], unit in the enum.
FoodSchema(food) ==
  /\ food.amount >= 100
  /\ food.amount <= Milli(10000)
  /\ food.unit \in Units

\* Document validation run by save() before anything is written.
Validate(doc) ==
  \A i \in 1..Len(doc.meals) :
    \A k \in 1..Len(doc.meals[i].foods) : FoodSchema(doc.meals[i].foods[k])

\* The catch block of the api/meals handler: the status answered for a
\* thrown error, by error name.
CatchStatus(err) ==
  IF err = "ZodError" THEN 400
  ELSE IF err = "ValidationError" THEN 400
  ELSE 500

\* MealEntry.findOne({userId, date: {$gte: startOfDay, $lte: endOfDay}}):
\* the _ids of the documents of that user whose date falls on that day.
FindByDay(u, date) ==
  { i \in 1..Len(store) : store[i].userId = u /\ store[i].date.day = date.day }

\* Unique index {userId: 1, date: 1}: the key is the stored Date value.
DuplicateKey(doc) ==
  \E i \in 1..Len(store) : store[i].userId = doc.userId /\ store[i].date = doc.date

\* mealEntry.meals.findIndex(meal => meal.mealType === mealType); 0 = none.
FindMealIndex(meals, t) ==
  IF \E i \in 1..Len(meals) : meals[i].mealType = t
  THEN CHOOSE i \in 1..Len(meals) :
         /\ meals[i].mealType = t
         /\ \A j \in 1..(i - 1) : meals[j].mealType # t
  ELSE 0

\* Mutant: the submitted foods are appended to the meal already stored.
PutMeal_Merge(meals, newMeal) ==
  LET k == FindMealIndex(meals, newMeal.mealType)
  IN  IF k > 0 THEN [meals EXCEPT ![k].foods = @ \o newMeal.foods] ELSE Append(meals, newMeal)

\* Mutant: the new meal is always pushed.
PutMeal_Push(meals, newMeal) == Append(meals, newMeal)

\* The else-branch of the handler: replace the meal of that type or push.
PutMeal(meals, newMeal) ==
  LET k == FindMealIndex(meals, newMeal.mealType)
  IN  IF k > 0 THEN [meals EXCEPT ![k] = newMeal] ELSE Append(meals, newMeal)

\* new MealEntry({...}) of the create branch.
NewMealEntry(u, date, newMeal, goals) ==
  [userId       |-> u,
   date         |-> date,
   meals        |-> <<newMeal>>,
   dailyTotals  |-> ZeroDailyTotals,
   goalProgress |-> GoalProgressOf(ZeroDailyTotals, goals)]

\* The entry left by two earlier, completed requests of u1 for day 2:
\* breakfast (oatmeal), then lunch (oatmeal again).
SeedEntry ==
  LET goals == UserGoals
      b  == [mealType |-> "breakfast", foods |-> <<Oatmeal>>, mealTotals |-> ZeroMealTotals]
      l  == [mealType |-> "lunch", foods |-> <<Oatmeal>>, mealTotals |-> ZeroMealTotals]
      d1 == PreSave(NewMealEntry("u1", [day |-> 2, time |-> 1], b, goals))
      d2 == PreSave([d1 EXCEPT !.meals = PutMeal(d1.meals, l)])
  IN  PreSave([d2 EXCEPT !.goalProgress = GoalProgressOf(d2.dailyTotals, goals)])

\* initialState of contexts/AuthContext
initialState ==
  [user |-> NullDoc, token |-> NullDoc, isLoading |-> TRUE, isAuthenticated |-> FALSE,
   error |-> NullDoc]

\* Asynchronous operations of AuthProvider.
AuthOps == {"login", "register", "checkAuthStatus"}

\* Callers of connectDB: request handlers running in the same process.
Callers == {1, 2, 3}

\* A caller that has not called connectDB yet.
NullCaller == [pc |-> "idle", promise |-> 0, conn |-> NullDoc]

\* No api/auth request sent yet by a session.
NullAuth ==
  [pc |-> "idle", op |-> "", body |-> NullDoc, user |-> 0, status |-> 0,
   error |-> "", code |-> "", token |-> NullDoc]

\* State once the user is registered and has logged two meals on day 2;
\* day 1 has no entry yet.  lastSaver 0 stands for those earlier requests.
Init ==
  /\ users = [u \in UserIds |-> UserGoals]
  /\ store = <<SeedEntry>>
  /\ lastSaver = <<0>>
  /\ pc = [s \in Sessions |-> "idle"]
  /\ req = [s \in Sessions |-> NullDoc]
  /\ userData = [s \in Sessions |-> NullDoc]
  /\ mealEntry = [s \in Sessions |-> NullDoc]
  /\ savedMealEntry = [s \in Sessions |-> NullDoc]
  /\ status = [s \in Sessions |-> 0]
  /\ error = [s \in Sessions |-> ""]
  /\ reply = NullDoc
  /\ summary = NullDoc
  /\ accounts = <<SeedUser>>
  /\ authReq = [s \in Sessions |-> NullAuth]
  /\ calc = NullDoc
  /\ ring = NullDoc
  /\ cached = [conn |-> NullDoc, promise |-> 0]
  /\ attempt = <<>>
  /\ caller = [c \in Callers |-> NullCaller]
  /\ microtasks = <<>>
  /\ authState = initialState
  /\ localStorage = NullDoc
  /\ authCalls = [op \in AuthOps |-> [pc |-> "idle", token |-> NullDoc]]
  /\ appAuth = [user |-> NullDoc, token |-> NullDoc, isLoading |-> FALSE,
                isAuthenticated |-> FALSE]
  /\ foodSearch = NullDoc
  /\ selectedFoods = <<>>
  /\ isLoading = FALSE

\* -------------------------------------------------- api/meals/index (POST)
\* Token verified, body parsed by mealSchema, goals read by User.findById,
\* entry looked up by day range, newMeal and the in-memory document built.
\* (Users are not written by any operation here, so reading them in the same
\* step as findOne loses no interleaving.)  Sessions are interchangeable:
\* session s starts after session s-1.
BuildEntry(s, lists) ==
  /\ pc[s] = "idle"
  /\ s > 1 => pc[s - 1] # "idle"
  /\ \E u \in UserIds, d \in Dates, t \in MealTypes, fs \in lists :
       LET newMeal == [mealType |-> t, foods |-> fs, mealTotals |-> ZeroMealTotals]
           hits == FindByDay(u, d)
       IN  /\ mealSchema(fs)
           /\ req' = [req EXCEPT ![s] = [userId |-> u, date |-> d, mealType |-> t, foods |-> fs]]
           /\ userData' = [userData EXCEPT ![s] = users[u]]
           /\ IF hits = {}
              THEN mealEntry' = [mealEntry EXCEPT ![s] =
                     [id |-> 0, doc |-> NewMealEntry(u, d, newMeal, users[u])]]
              ELSE \E i \in hits :
                     mealEntry' = [mealEntry EXCEPT ![s] =
                       [id |-> i, doc |-> [store[i] EXCEPT !.meals = PutMeal(store[i].meals, newMeal)]]]
  /\ pc' = [pc EXCEPT ![s] = "built"]
  /\ summary' = NullDoc
  /\ UNCHANGED <<sideVars, users, store, lastSaver, savedMealEntry, status, error, reply>>

\* A request with a body of FoodLists.
FindEntry(s) == BuildEntry(s, FoodLists)

\* A request whose body passes mealSchema and fails MealEntry validation.
FindEntryUnsavable(s) == BuildEntry(s, UnsavableLists)

\* A request whose body mealSchema.parse rejects: the ZodError is thrown
\* after the token check and before any query; the catch block answers 400.
RejectBody(s) ==
  /\ pc[s] = "idle"
  /\ s > 1 => pc[s - 1] # "idle"
  /\ \E u \in UserIds, d \in Dates, t \in MealTypes, fs \in UnparsableLists :
       /\ ~mealSchema(fs)
       /\ req' = [req EXCEPT ![s] = [userId |-> u, date |-> d, mealType |-> t, foods |-> fs]]
  /\ error' = [error EXCEPT ![s] = "ZodError"]
  /\ status' = [status EXCEPT ![s] = CatchStatus("ZodError")]
  /\ pc' = [pc EXCEPT ![s] = "failed"]
  /\ summary' = NullDoc
  /\ UNCHANGED <<sideVars, users, store, lastSaver, userData, mealEntry, savedMealEntry, reply>>

\* await mealEntry.save(): validation, pre-save hook, then insert (new) or
\* update.  A validation failure throws a ValidationError and a duplicate
\* key on insert throws a MongoServerError (E11000), both before anything
\* is written; the catch block answers by error name.
SaveFirst(s) ==
  /\ pc[s] = "built"
  /\ LET e == mealEntry[s]
         d == PreSave(e.doc)
         thrown == IF ~Validate(e.doc) THEN "ValidationError"
                   ELSE IF e.id = 0 /\ DuplicateKey(d) THEN "MongoServerError"
                   ELSE ""
     IN  IF thrown # ""
         THEN /\ pc' = [pc EXCEPT ![s] = "failed"]
              /\ error' = [error EXCEPT ![s] = thrown]
              /\ status' = [status EXCEPT ![s] = CatchStatus(thrown)]
              /\ UNCHANGED <<store, lastSaver, mealEntry>>
         ELSE /\ IF e.id = 0
                 THEN /\ store' = Append(store, d)
                      /\ lastSaver' = Append(lastSaver, s)
                      /\ mealEntry' = [mealEntry EXCEPT ![s] = [id |-> Len(store) + 1, doc |-> d]]
                 ELSE /\ store' = [store EXCEPT ![e.id] = d]
                      /\ lastSaver' = [lastSaver EXCEPT ![e.id] = s]
                      /\ mealEntry' = [mealEntry EXCEPT ![s] = [id |-> e.id, doc |-> d]]
              /\ pc' = [pc EXCEPT ![s] = "saved"]
              /\ UNCHANGED <<status, error>>
  /\ summary' = NullDoc
  /\ UNCHANGED <<sideVars, users, req, userData, savedMealEntry, reply>>

\* Mutant: the entry is re-read but its goalProgress is not reassigned.
Reload_NoProgress(s) ==
  /\ pc[s] = "saved"
  /\ savedMealEntry' = [savedMealEntry EXCEPT ![s] = store[mealEntry[s].id]]
  /\ pc' = [pc EXCEPT ![s] = "reloaded"]
  /\ summary' = NullDoc
  /\ UNCHANGED <<sideVars, users, store, lastSaver, req, userData, mealEntry, status, error, reply>>

\* savedMealEntry = await MealEntry.findById(mealEntry._id), then
\* savedMealEntry.goalProgress = {...} from the dailyTotals just read.
Reload(s) ==
  /\ pc[s] = "saved"
  /\ LET d == store[mealEntry[s].id]
     IN  savedMealEntry' = [savedMealEntry EXCEPT ![s] =
           [d EXCEPT !.goalProgress = GoalProgressOf(d.dailyTotals, userData[s])]]
  /\ pc' = [pc EXCEPT ![s] = "reloaded"]
  /\ summary' = NullDoc
  /\ UNCHANGED <<sideVars, users, store, lastSaver, req, userData, mealEntry, status, error, reply>>

\* Mutant: the second save writes goalProgress alone into the stored entry.
SaveSecond_ProgressOnly(s) ==
  /\ pc[s] = "reloaded"
  /\ LET d == PreSave(savedMealEntry[s])
     IN  /\ store' = [store EXCEPT ![mealEntry[s].id].goalProgress = d.goalProgress]
         /\ lastSaver' = [lastSaver EXCEPT ![mealEntry[s].id] = s]
         /\ savedMealEntry' = [savedMealEntry EXCEPT ![s] = d]
  /\ status' = [status EXCEPT ![s] = 201]
  /\ pc' = [pc EXCEPT ![s] = "done"]
  /\ summary' = NullDoc
  /\ UNCHANGED <<sideVars, users, req, userData, mealEntry, error, reply>>

\* await savedMealEntry.save(), then the 201 response carrying it.
SaveSecond(s) ==
  /\ pc[s] = "reloaded"
  /\ LET d == PreSave(savedMealEntry[s])
     IN  /\ store' = [store EXCEPT ![mealEntry[s].id] = d]
         /\ lastSaver' = [lastSaver EXCEPT ![mealEntry[s].id] = s]
         /\ savedMealEntry' = [savedMealEntry EXCEPT ![s] = d]
  /\ status' = [status EXCEPT ![s] = 201]
  /\ pc' = [pc EXCEPT ![s] = "done"]
  /\ summary' = NullDoc
  /\ UNCHANGED <<sideVars, users, req, userData, mealEntry, error, reply>>

\* ------------------------------------------- api/meals/daily/[date] (GET)
\* Mutant: the goals of the empty answer are left null.
emptyGoals_Null(goals) == NullDoc

\* emptyGoals of the handler, for a user that User.findById finds.
emptyGoals(goals) ==
  [calories      |-> [target |-> goals.dailyCalories, actual |-> 0, percentage |-> 0,
                      remaining |-> goals.dailyCalories],
   protein       |-> [target |-> goals.macroTargets.protein, actual |-> 0, percentage |-> 0,
                      remaining |-> goals.macroTargets.protein],
   carbohydrates |-> [target |-> goals.macroTargets.carbohydrates, actual |-> 0, percentage |-> 0,
                      remaining |-> goals.macroTargets.carbohydrates],
   fat           |-> [target |-> goals.macroTargets.fat, actual |-> 0, percentage |-> 0,
                      remaining |-> goals.macroTargets.fat]]

GetDailySummary ==
  /\ \E u \in UserIds, d \in Dates :
       LET hits == FindByDay(u, d)
       IN  IF hits = {}
           THEN summary' =
                  [isEmpty |-> TRUE, userId |-> u, day |-> d.day,
                   mealEntry |-> [meals |-> <<>>,
                                  dailyTotals |-> [calories |-> 0, protein |-> 0,
                                                   carbohydrates |-> 0, fat |-> 0, fiber |-> 0,
                                                   sugar |-> 0, sodium |-> 0],
                                  goalProgress |-> emptyGoals(users[u])]]
           ELSE \E i \in hits :
                  summary' = [isEmpty |-> FALSE, userId |-> u, day |-> d.day,
                              mealEntry |-> store[i]]
  /\ UNCHANGED <<sideVars, users, store, lastSaver, pc, req, userData, mealEntry,
                 savedMealEntry, status, error, reply>>

Next ==
  \/ \E s \in Sessions : FindEntry(s)
  \/ \E s \in Sessions : SaveFirst(s)
  \/ \E s \in Sessions : Reload(s)
  \/ \E s \in Sessions : SaveSecond(s)
  \/ GetDailySummary

Spec == Init /\ [][Next]_vars

TypeOK ==
  /\ Len(store) = Len(lastSaver)
  /\ \A s \in Sessions : pc[s] \in {"idle", "built", "saved", "reloaded", "done", "failed"}

\* One request at a time: a request starts only when no other is in flight.
InFlight(s) == pc[s] \in {"built", "saved", "reloaded"}

SeqNext ==
  \/ \E s \in Sessions : FindEntry(s) /\ \A t \in Sessions : ~InFlight(t)
  \/ \E s \in Sessions : SaveFirst(s)
  \/ \E s \in Sessions : Reload(s)
  \/ \E s \in Sessions : SaveSecond(s)
  \/ GetDailySummary

SeqSpec == Init /\ [][SeqNext]_vars

\* One request at a time, with bodies of every kind: accepted, rejected by
\* mealSchema, rejected by MealEntry validation.
MealNext ==
  \/ \E s \in Sessions : FindEntry(s) /\ \A t \in Sessions : ~InFlight(t)
  \/ \E s \in Sessions : FindEntryUnsavable(s) /\ \A t \in Sessions : ~InFlight(t)
  \/ \E s \in Sessions : RejectBody(s) /\ \A t \in Sessions : ~InFlight(t)
  \/ \E s \in Sessions : SaveFirst(s)
  \/ \E s \in Sessions : Reload(s)
  \/ \E s \in Sessions : SaveSecond(s)
  \/ GetDailySummary

MealSpec == Init /\ [][MealNext]_vars

\* ------------------------------------------------------------ lib/auth
\* What a request presents as its token.
Tokens == {"valid", "expired", "missing"}

\* Mutant: the token is decoded without being verified.
getUserFromRequest_Decode(token) ==
  IF token = "missing" THEN NullDoc ELSE [userId |-> "u1"]

\* getUserFromRequest: null when there is no token or verifyToken throws.
getUserFromRequest(token) ==
  IF token = "valid" THEN [userId |-> "u1"] ELSE NullDoc

\* ----------------------------------------------------- SpoonacularService
Tenths(x) == x * 100

Nutrition7(c, p, ch, f, fi, su, so) ==
  [calories |-> c, protein |-> p, carbohydrates |-> ch, fat |-> f, fiber |-> fi,
   sugar |-> su, sodium |-> so]

NutritionFields == {"calories", "protein", "carbohydrates", "fat", "fiber", "sugar", "sodium"}

\* A JavaScript number as parseFloat returns it: finite (thousandths), NaN
\* or Infinity.
Finite(v) == [kind |-> "finite", v |-> v]

NaN == [kind |-> "NaN", v |-> 0]

Infinity == [kind |-> "Infinity", v |-> 0]

\* The amount query parameter ("" = not given) and parseFloat of it.
AmountParams == {"", "100", "150", "0", "-50", "abc", "Infinity"}

parseFloat(str) ==
  CASE str = "100" -> Finite(Milli(100))
    [] str = "150" -> Finite(Milli(150))
    [] str = "0" -> Finite(0)
    [] str = "-50" -> Finite(Milli(0 - 50))
    [] str = "Infinity" -> Infinity
    [] OTHER -> NaN

\* The id query parameter ("" = not given) and parseInt of it (0 = NaN).
IdParams == {"", "abc", "1", "2", "6", "9", "99"}

parseInt(str) ==
  CASE str = "1" -> 1 [] str = "2" -> 2 [] str = "6" -> 6 [] str = "9" -> 9
    [] str = "20" -> 20 [] str = "99" -> 99
    [] OTHER -> 0

UnitParams == {"", "cups"}

\* Outcome of a call to the external catalog: answered, HTTP 404, HTTP 402,
\* or any other failure (timeout, network, HTTP 500).
CatalogOutcomes == {"ok", "NotFound", "RateLimited", "Error"}

\* The response interceptor: the message of the error a failed call throws.
Interceptor(outcome) ==
  CASE outcome = "RateLimited" -> "API rate limit exceeded or quota reached"
    [] outcome = "NotFound" -> "Food not found in database"
    [] OTHER -> "Network Error"

\* Mutant: calories truncated instead of rounded.
ScaleRound0_Floor(base, amount) ==
  Milli(((base \div 100) * (amount \div 100)) \div 10000)

\* Math.round(base * (amount / 100)) on thousandths.  base and amount are
\* whole tenths (every mockNutrition value and every amount used here), so
\* base/100 and amount/100 count tenths and the product stays exact.
ScaleRound0(base, amount) ==
  Milli(RoundDiv((base \div 100) * (amount \div 100), 10000))

\* Math.round(base * (amount / 100) * 10) / 10 on thousandths.
ScaleRound1(base, amount) ==
  100 * RoundDiv((base \div 100) * (amount \div 100), 1000)

\* base * multiplier when the multiplier is not finite: 0 * Infinity is NaN.
NonFinite(base, amount) ==
  IF amount.kind = "NaN" \/ base = 0 THEN "NaN" ELSE "Infinity"

mockFoods ==
  <<[id |-> 1, name |-> <<"C", "h", "i", "c", "k", "e", "n", " ", "B", "r", "e", "a", "s", "t">>],
     [id |-> 2, name |-> <<"B", "r", "o", "w", "n", " ", "R", "i", "c", "e">>],
     [id |-> 3, name |-> <<"B", "r", "o", "c", "c", "o", "l", "i">>],
     [id |-> 4, name |-> <<"S", "a", "l", "m", "o", "n", " ", "F", "i", "l", "l", "e", "t">>],
     [id |-> 5, name |-> <<"G", "r", "e", "e", "k", " ", "Y", "o", "g", "u", "r", "t">>],
     [id |-> 6, name |-> <<"O", "a", "t", "m", "e", "a", "l">>],
     [id |-> 7, name |-> <<"S", "w", "e", "e", "t", " ", "P", "o", "t", "a", "t", "o">>],
     [id |-> 8, name |-> <<"S", "p", "i", "n", "a", "c", "h">>],
     [id |-> 9, name |-> <<"A", "l", "m", "o", "n", "d", "s">>],
     [id |-> 10, name |-> <<"B", "a", "n", "a", "n", "a">>]>>

mockNutrition ==
  <<Nutrition7(Milli(165), Tenths(310), Tenths(0), Tenths(36), Tenths(0), Tenths(0), Tenths(740)),
     Nutrition7(Milli(123), Tenths(26), Tenths(230), Tenths(9), Tenths(18), Tenths(4), Tenths(50)),
     Nutrition7(Milli(34), Tenths(28), Tenths(70), Tenths(4), Tenths(26), Tenths(15), Tenths(330)),
     Nutrition7(Milli(208), Tenths(250), Tenths(0), Tenths(120), Tenths(0), Tenths(0), Tenths(670)),
     Nutrition7(Milli(59), Tenths(100), Tenths(36), Tenths(4), Tenths(0), Tenths(32), Tenths(360)),
     Nutrition7(Milli(68), Tenths(24), Tenths(120), Tenths(14), Tenths(17), Tenths(8), Tenths(490)),
     Nutrition7(Milli(86), Tenths(16), Tenths(200), Tenths(1), Tenths(30), Tenths(42), Tenths(540)),
     Nutrition7(Milli(23), Tenths(29), Tenths(36), Tenths(4), Tenths(22), Tenths(4), Tenths(790)),
     Nutrition7(Milli(579), Tenths(210), Tenths(220), Tenths(500), Tenths(120), Tenths(43), Tenths(10)),
     Nutrition7(Milli(89), Tenths(11), Tenths(230), Tenths(3), Tenths(26), Tenths(120), Tenths(10))>>

\* getMockNutritionData: no check of the amount.
getMockNutritionData(id, amount, unit) ==
  LET baseNutrition == IF id \in DOMAIN mockNutrition THEN mockNutrition[id] ELSE mockNutrition[1]
      scaled(f) == IF amount.kind # "finite" THEN NonFinite(baseNutrition[f], amount)
                   ELSE IF f = "calories" THEN ScaleRound0(baseNutrition[f], amount.v)
                   ELSE ScaleRound1(baseNutrition[f], amount.v)
  IN  [id |-> id, name |-> "Mock Food", nutrition |-> [f \in NutritionFields |-> scaled(f)]]

\* What the catalog answers for /food/ingredients/{id}/information: the
\* nutrients it lists (any subset), or no nutrition at all.
ApiAnswers ==
  { [name |-> "catalog food", nutrients |-> [calories |-> 247456, protein |-> 46512, fat |-> 5400]],
    [name |-> "catalog food", nutrients |-> <<>>] }

\* getNutrient: the nutrient rounded to two decimals, 0 when not listed.
getNutrient(nutrients, name) ==
  IF name \in DOMAIN nutrients THEN Round2(nutrients[name]) ELSE 0

\* Mutant: a failed catalog call is rethrown instead of recovered.
getFoodNutrition_Rethrow(mockMode, outcome, answer, id, amount, unit) ==
  IF mockMode
  THEN [called |-> FALSE, thrown |-> "", food |-> getMockNutritionData(id, amount, unit)]
  ELSE IF outcome = "ok"
  THEN [called |-> TRUE, thrown |-> "",
        food |-> [id |-> id, name |-> answer.name,
                  nutrition |-> [f \in NutritionFields |-> getNutrient(answer.nutrients, f)]]]
  ELSE [called |-> TRUE, thrown |-> Interceptor(outcome), food |-> NullDoc]

\* getFoodNutrition: mock data in mock mode; otherwise the catalog's answer,
\* and mock data again when the call fails.
getFoodNutrition(mockMode, outcome, answer, id, amount, unit) ==
  IF mockMode
  THEN [called |-> FALSE, thrown |-> "", food |-> getMockNutritionData(id, amount, unit)]
  ELSE IF outcome = "ok"
  THEN [called |-> TRUE, thrown |-> "",
        food |-> [id |-> id, name |-> answer.name,
                  nutrition |-> [f \in NutritionFields |-> getNutrient(answer.nutrients, f)]]]
  ELSE [called |-> TRUE, thrown |-> "", food |-> getMockNutritionData(id, amount, unit)]

\* String.toLowerCase, character by character.
UpperCase == <<"A", "B", "C", "F", "G", "O", "P", "R", "S", "Y">>

LowerCase == <<"a", "b", "c", "f", "g", "o", "p", "r", "s", "y">>

toLowerCase(w) ==
  [k \in 1..Len(w) |->
     IF \E j \in 1..Len(UpperCase) : UpperCase[j] = w[k]
     THEN LowerCase[CHOOSE j \in 1..Len(UpperCase) : UpperCase[j] = w[k]]
     ELSE w[k]]

\* String.includes
includes(w, q) ==
  \E k \in 0..(Len(w) - Len(q)) : SubSeq(w, k + 1, k + Len(q)) = q

\* Array.filter
RECURSIVE filter(_, _)
filter(foods, q) ==
  IF foods = <<>> THEN <<>>
  ELSE IF includes(toLowerCase(Head(foods).name), toLowerCase(q))
       THEN <<Head(foods)>> \o filter(Tail(foods), q)
       ELSE filter(Tail(foods), q)

\* Array.slice(0, limit) for a limit that is NaN (0) or positive.
slice(list, limit) ==
  SubSeq(list, 1, IF limit < Len(list) THEN limit ELSE Len(list))

getMockSearchResults(query, limit) == slice(filter(mockFoods, query), limit)

\* The query parameter of a search ("" = not given), as characters.
QueryParams == { <<>>, <<"a">>, <<"C", "h">>, <<"r", "i", "c", "e">>, <<"x", "y", "z">> }

\* The limit parameter ("" = not given, default '20').
LimitParams == {"", "1", "abc"}

\* What the catalog answers for /food/ingredients/search: a result list, or
\* a body without one.
ApiSearchAnswers ==
  { [results |-> <<[id |-> 9266, name |-> <<"r", "i", "c", "e">>]>>], NullDoc }

\* searchFood: same recovery as getFoodNutrition.
searchFood(mockMode, outcome, answer, query, limit) ==
  IF mockMode
  THEN [called |-> FALSE, thrown |-> "", results |-> getMockSearchResults(query, limit)]
  ELSE IF outcome = "ok"
  THEN [called |-> TRUE, thrown |-> "",
        results |-> IF "results" \in DOMAIN answer THEN answer.results ELSE <<>>]
  ELSE [called |-> TRUE, thrown |-> "", results |-> getMockSearchResults(query, limit)]

\* ----------------------------------------- requests answered in one step
\* reply.args is the request as received, reply.catalogCalled tells whether
\* the external catalog was called, reply.data is the body of a 200 answer.
Answer(args, st, code, called, data) ==
  /\ reply' = [args |-> args, status |-> st, code |-> code, catalogCalled |-> called,
               data |-> data]
  /\ UNCHANGED <<sideVars, users, store, lastSaver, pc, req, userData, mealEntry,
                 savedMealEntry, status, error, summary>>

\* api/auth/me
AuthMe ==
  \E token \in Tokens :
    LET args == [op |-> "auth/me", token |-> token]
        authUser == getUserFromRequest(token)
    IN  IF authUser = NullDoc
        THEN Answer(args, 401, "NOT_AUTHENTICATED", FALSE, NullDoc)
        ELSE IF authUser.userId \notin DOMAIN users
        THEN Answer(args, 404, "USER_NOT_FOUND", FALSE, NullDoc)
        ELSE Answer(args, 200, "", FALSE,
                    [id |-> authUser.userId, goals |-> users[authUser.userId]])

\* api/foods/search
FoodsSearch ==
  \E token \in Tokens, query \in QueryParams, lim \in LimitParams,
     mockMode \in BOOLEAN, outcome \in CatalogOutcomes, answer \in ApiSearchAnswers :
    LET args == [op |-> "foods/search", token |-> token, query |-> query, limit |-> lim,
                 mockMode |-> mockMode, outcome |-> outcome, answer |-> answer]
        limit == parseInt(IF lim = "" THEN "20" ELSE lim)
        found == searchFood(mockMode, outcome, answer, query, limit)
    IN  IF getUserFromRequest(token) = NullDoc
        THEN Answer(args, 401, "NOT_AUTHENTICATED", FALSE, NullDoc)
        ELSE IF query = <<>>
        THEN Answer(args, 400, "MISSING_QUERY", FALSE, NullDoc)
        ELSE IF Len(query) < 2
        THEN Answer(args, 400, "QUERY_TOO_SHORT", FALSE, NullDoc)
        ELSE IF found.thrown # ""
        THEN IF found.thrown = Interceptor("RateLimited")
             THEN Answer(args, 429, "RATE_LIMIT_EXCEEDED", found.called, NullDoc)
             ELSE Answer(args, 500, "", found.called, NullDoc)
        ELSE Answer(args, 200, "", found.called,
                    [results |-> found.results, count |-> Len(found.results)])

\* api/foods/[id]
FoodDetails ==
  \E token \in Tokens, id \in IdParams, amount \in AmountParams, unit \in UnitParams,
     mockMode \in BOOLEAN, outcome \in CatalogOutcomes, answer \in ApiAnswers :
    LET args == [op |-> "foods/[id]", token |-> token, id |-> id, amount |-> amount,
                 unit |-> unit, mockMode |-> mockMode, outcome |-> outcome,
                 answer |-> answer]
        foodId == parseInt(id)
        amountNum == parseFloat(IF amount = "" THEN "100" ELSE amount)
        unitStr == IF unit = "" THEN "grams" ELSE unit
        got == getFoodNutrition(mockMode, outcome, answer, foodId, amountNum, unitStr)
    IN  IF getUserFromRequest(token) = NullDoc
        THEN Answer(args, 401, "NOT_AUTHENTICATED", FALSE, NullDoc)
        ELSE IF id = ""
        THEN Answer(args, 400, "MISSING_ID", FALSE, NullDoc)
        ELSE IF foodId = 0
        THEN Answer(args, 400, "INVALID_ID", FALSE, NullDoc)
        ELSE IF amountNum.kind = "NaN" \/ (amountNum.kind = "finite" /\ amountNum.v <= 0)
        THEN Answer(args, 400, "INVALID_AMOUNT", FALSE, NullDoc)
        ELSE IF got.thrown # ""
        THEN IF got.thrown = Interceptor("NotFound")
             THEN Answer(args, 404, "FOOD_NOT_FOUND", got.called, NullDoc)
             ELSE IF got.thrown = Interceptor("RateLimited")
             THEN Answer(args, 429, "RATE_LIMIT_EXCEEDED", got.called, NullDoc)
             ELSE Answer(args, 500, "", got.called, NullDoc)
        ELSE Answer(args, 200, "", got.called,
                    [food |-> got.food, requestedAmount |-> amountNum,
                     requestedUnit |-> unitStr])

\* api/meals/index and api/meals/daily/[date] when getUserFromRequest
\* returns null: the 401 answer, sent before any query.
MealsUnauthorized ==
  \E token \in Tokens, op \in {"meals", "meals/daily"} :
    /\ getUserFromRequest(token) = NullDoc
    /\ Answer([op |-> op, token |-> token], 401, "NOT_AUTHENTICATED", FALSE, NullDoc)

\* The client receives the answer.
Receive ==
  /\ reply # NullDoc
  /\ reply' = NullDoc
  /\ UNCHANGED <<sideVars, users, store, lastSaver, pc, req, userData, mealEntry,
                 savedMealEntry, status, error, summary>>

\* One client: it sends its next request once it has received the answer.
ApiNext ==
  \/ reply = NullDoc /\ AuthMe
  \/ reply = NullDoc /\ FoodsSearch
  \/ reply = NullDoc /\ FoodDetails
  \/ reply = NullDoc /\ MealsUnauthorized
  \/ Receive

ApiSpec == Init /\ [][ApiNext]_vars

\* ------------------------------------- api/auth/register, api/auth/login
\* z.string().email: one "@" after a non-empty local part, and a domain
\* with a dot inside it.
isEmail(e) ==
  \E k \in 2..(Len(e) - 3) :
    /\ e[k] = "@"
    /\ \A j \in 1..Len(e) : e[j] = "@" => j = k
    /\ \E j \in (k + 2)..(Len(e) - 1) : e[j] = "."

EmailParams == {EmailA, EmailAUpper, EmailB, EmailC, EmailBad}

\* Passwords a client sends: the seeded user's, another of legal length,
\* one shorter than 8 characters and the empty one.
PasswordParams == {"secret12", "hunter22", "short", ""}

\* Years of birth sent in profile.dateOfBirth, and the years in which the
\* request can be served (new Date().getFullYear()).
BirthYears == {1990, 2020}

CurrentYears == {2024, 2026}

\* Goals sent to register: those of the percentage test (2000 kcal; 150 g,
\* 250 g, 44 g), a plan whose carbohydrate share is 30.5 % before rounding,
\* and one below the 800 kcal minimum.
GoalParams ==
  { [dailyCalories |-> Milli(2000),
     macroTargets |-> [protein |-> Milli(150), carbohydrates |-> Milli(250), fat |-> Milli(44)]],
    [dailyCalories |-> Milli(1600),
     macroTargets |-> [protein |-> Milli(50), carbohydrates |-> Milli(122), fat |-> Milli(67)]],
    [dailyCalories |-> Milli(500),
     macroTargets |-> [protein |-> Milli(30), carbohydrates |-> Milli(60), fat |-> Milli(10)]] }

RegisterBodies ==
  { [email |-> e, password |-> p, dateOfBirth |-> y, goals |-> g] :
      e \in EmailParams, p \in PasswordParams \ {""}, y \in BirthYears, g \in GoalParams }

LoginBodies == { [email |-> e, password |-> p] : e \in EmailParams, p \in PasswordParams }

\* registerSchema.parse succeeds
registerSchema(body) ==
  /\ isEmail(body.email)
  /\ Len(body.password) >= 8
  /\ body.goals.dailyCalories >= Milli(800)
  /\ body.goals.dailyCalories <= Milli(10000)
  /\ \A n \in MacroNames : body.goals.macroTargets[n] >= 0

\* loginSchema.parse succeeds
loginSchema(body) == isEmail(body.email) /\ Len(body.password) >= 1

\* User.findOne({ email }): the filter is cast by the schema, so the
\* address is lower-cased as it is when stored.  0 stands for null.
findOne(email) ==
  IF \E i \in 1..Len(accounts) : accounts[i].email = toLowerCase(email)
  THEN CHOOSE i \in 1..Len(accounts) : accounts[i].email = toLowerCase(email)
  ELSE 0

\* dateOfBirth validator of UserSchema: age between 13 and 120.
AgeValid(birthYear, now) == now - birthYear >= 13 /\ now - birthYear <= 120

\* generateToken({ userId, email })
generateToken(id) == [userId |-> id, email |-> accounts'[id].email]

Respond(s, st, err, code, tok) ==
  authReq' = [authReq EXCEPT ![s].pc = "done", ![s].status = st, ![s].error = err,
                             ![s].code = code, ![s].token = tok]

\* register, up to the await of User.findOne: body parsed, existing user
\* looked up.
RegisterFind(s) ==
  /\ authReq[s].pc = "idle"
  /\ s > 1 => authReq[s - 1].pc # "idle"
  /\ \E body \in RegisterBodies :
       LET r == [authReq[s] EXCEPT !.op = "register", !.body = body]
       IN  IF ~registerSchema(body)
           THEN authReq' = [authReq EXCEPT ![s] =
                  [r EXCEPT !.pc = "done", !.status = 400, !.error = "Validation failed"]]
           ELSE IF findOne(body.email) # 0
           THEN authReq' = [authReq EXCEPT ![s] =
                  [r EXCEPT !.pc = "done", !.status = 400,
                            !.error = "User already exists with this email",
                            !.code = "USER_EXISTS"]]
           ELSE authReq' = [authReq EXCEPT ![s] = [r EXCEPT !.pc = "creating"]]
  /\ UNCHANGED <<nonAuthVars, accounts>>

\* register, from new User(validatedData) on: validation, the two
\* pre('save') hooks, the insert checked against the unique index on email,
\* the token and the 201 answer; a ValidationError is answered 400 and any
\* other error, the duplicate key among them, 500.
RegisterSave(s) ==
  /\ authReq[s].pc = "creating"
  /\ \E now \in CurrentYears :
       LET body == authReq[s].body
           user == [email |-> toLowerCase(body.email),
                    password |-> hash(body.password),
                    goals |-> UserPreSave(body.goals, TRUE),
                    lastLoginAt |-> <<"register", s>>]
       IN  IF ~AgeValid(body.dateOfBirth, now)
           THEN /\ Respond(s, 400, "Database validation failed", "", NullDoc)
                /\ UNCHANGED accounts
           ELSE IF \E i \in 1..Len(accounts) : accounts[i].email = user.email
           THEN /\ Respond(s, 500, "Internal server error", "", NullDoc)
                /\ UNCHANGED accounts
           ELSE /\ accounts' = Append(accounts, user)
                /\ authReq' = [authReq EXCEPT ![s].pc = "done", ![s].status = 201,
                                 ![s].user = Len(accounts) + 1,
                                 ![s].token = generateToken(Len(accounts) + 1)]
  /\ UNCHANGED nonAuthVars

\* Mutant: lastLoginAt is stamped as soon as the user is found, before the
\* password is compared.
LoginFind_StampFirst(s) ==
  /\ authReq[s].pc = "idle"
  /\ s > 1 => authReq[s - 1].pc # "idle"
  /\ \E body \in LoginBodies :
       LET r == [authReq[s] EXCEPT !.op = "login", !.body = body]
           i == findOne(body.email)
       IN  IF ~loginSchema(body)
           THEN /\ authReq' = [authReq EXCEPT ![s] =
                     [r EXCEPT !.pc = "done", !.status = 400, !.error = "Validation failed"]]
                /\ UNCHANGED accounts
           ELSE IF i = 0
           THEN /\ authReq' = [authReq EXCEPT ![s] =
                     [r EXCEPT !.pc = "done", !.status = 401,
                               !.error = "Invalid email or password",
                               !.code = "INVALID_CREDENTIALS"]]
                /\ UNCHANGED accounts
           ELSE IF ~comparePassword(body.password, accounts[i].password)
           THEN /\ authReq' = [authReq EXCEPT ![s] =
                     [r EXCEPT !.pc = "done", !.status = 401,
                               !.error = "Invalid email or password",
                               !.code = "INVALID_CREDENTIALS"]]
                /\ accounts' = [accounts EXCEPT ![i].lastLoginAt = <<"login", s>>]
           ELSE /\ authReq' = [authReq EXCEPT ![s] = [r EXCEPT !.pc = "matched", !.user = i]]
                /\ UNCHANGED accounts
  /\ UNCHANGED nonAuthVars

\* login, up to the await of comparePassword: body parsed, user looked up
\* by email, password compared with the stored hash.  (No operation changes
\* a stored password, so comparing in the step of the lookup loses no
\* interleaving.)
LoginFind(s) ==
  /\ authReq[s].pc = "idle"
  /\ s > 1 => authReq[s - 1].pc # "idle"
  /\ \E body \in LoginBodies :
       LET r == [authReq[s] EXCEPT !.op = "login", !.body = body]
           i == findOne(body.email)
       IN  IF ~loginSchema(body)
           THEN authReq' = [authReq EXCEPT ![s] =
                  [r EXCEPT !.pc = "done", !.status = 400, !.error = "Validation failed"]]
           ELSE IF i = 0
           THEN authReq' = [authReq EXCEPT ![s] =
                  [r EXCEPT !.pc = "done", !.status = 401,
                            !.error = "Invalid email or password",
                            !.code = "INVALID_CREDENTIALS"]]
           ELSE IF ~comparePassword(body.password, accounts[i].password)
           THEN authReq' = [authReq EXCEPT ![s] =
                  [r EXCEPT !.pc = "done", !.status = 401,
                            !.error = "Invalid email or password",
                            !.code = "INVALID_CREDENTIALS"]]
           ELSE authReq' = [authReq EXCEPT ![s] = [r EXCEPT !.pc = "matched", !.user = i]]
  /\ UNCHANGED <<nonAuthVars, accounts>>

\* login, from user.lastLoginAt = new Date() on: save() of the loaded
\* document, which writes lastLoginAt only and leaves the hooks idle
\* (neither the password nor the goals are modified), then the token and
\* the 200 answer.  save() validates the loaded document: where the stored
\* percentages lie outside their min/max the save can be rejected, which
\* the catch block answers 500.
LoginSave(s) ==
  /\ authReq[s].pc = "matched"
  /\ LET i == authReq[s].user
     IN  \/ /\ accounts' = [accounts EXCEPT
                              ![i].goals = UserPreSave(accounts[i].goals, FALSE),
                              ![i].lastLoginAt = <<"login", s>>]
            /\ Respond(s, 200, "", "", generateToken(i))
         \/ /\ ~PercentagesValid(accounts[i].goals.macroPercentages)
            /\ Respond(s, 500, "Internal server error", "", NullDoc)
            /\ UNCHANGED accounts
  /\ UNCHANGED nonAuthVars

\* Two clients, each sending one register or login request; the requests
\* may overlap in any way.
AuthNext ==
  \/ \E s \in Sessions : RegisterFind(s)
  \/ \E s \in Sessions : RegisterSave(s)
  \/ \E s \in Sessions : LoginFind(s)
  \/ \E s \in Sessions : LoginSave(s)

AuthSpec == Init /\ [][AuthNext]_vars

\* ------------------------------------------------- metabolic calculators
\* Energies of generateBMR are integer counts of 0.00001 kcal, so that the
\* conversions from pounds (0.453592 kg) and inches (2.54 cm) stay exact.
E5(x) == x * 100000

Genders == {"male", "female", "other"}

\* Activity multipliers, in thousandths.
multipliers ==
  [sedentary |-> 1200, light |-> 1375, moderate |-> 1550, active |-> 1725,
   very_active |-> 1900]

\* Activity levels a profile can carry: the five of the enum, one outside
\* it and the empty string of a form not filled in.
LevelParams == DOMAIN multipliers \cup {"extreme", ""}

WeightParams == { [value |-> 75, unit |-> "kg"], [value |-> 165, unit |-> "lbs"] }

HeightParams == { [value |-> 180, unit |-> "cm"], [value |-> 71, unit |-> "inches"] }

\* Profiles of a User document built by new User(...): validation has not
\* run, so the activity level need not be one of the enum.
Profiles ==
  { [weight |-> w, height |-> h, dateOfBirth |-> y, gender |-> g, activityLevel |-> l] :
      w \in WeightParams, h \in HeightParams, y \in BirthYears, g \in Genders,
      l \in LevelParams }

\* Mutant: the constant of the female branch used for every gender.
generateBMR_Female(profile, now) ==
  LET age == now - profile.dateOfBirth
      weightKg10 == IF profile.weight.unit = "kg" THEN E5(10 * profile.weight.value)
                    ELSE profile.weight.value * 453592
      heightCm625 == IF profile.height.unit = "cm" THEN profile.height.value * 625000
                     ELSE profile.height.value * 1587500
      bmr == weightKg10 + heightCm625 - E5(5 * age) - E5(161)
  IN  RoundDiv(bmr, E5(1))

\* UserSchema.methods.generateBMR; now is new Date().getFullYear() and
\* dateOfBirth the year of birth.  weightKg10 is 10 * weightKg (a pound is
\* 0.453592 kg) and heightCm625 is 6.25 * heightCm (an inch is 2.54 cm, so
\* 15.875 per inch), both exact in 0.00001 kcal.
generateBMR(profile, now) ==
  LET age == now - profile.dateOfBirth
      weightKg10 == IF profile.weight.unit = "kg" THEN E5(10 * profile.weight.value)
                    ELSE profile.weight.value * 453592
      heightCm625 == IF profile.height.unit = "cm" THEN profile.height.value * 625000
                     ELSE profile.height.value * 1587500
      bmr == IF profile.gender = "male"
             THEN weightKg10 + heightCm625 - E5(5 * age) + E5(5)
             ELSE weightKg10 + heightCm625 - E5(5 * age) - E5(161)
  IN  RoundDiv(bmr, E5(1))

\* UserSchema.methods.generateTDEE: multipliers[activityLevel] is undefined
\* for a level that is no key of the table, and Math.round(bmr * undefined)
\* is NaN.
generateTDEE(profile, now) ==
  IF profile.activityLevel \in DOMAIN multipliers
  THEN Finite(RoundDiv(generateBMR(profile, now) * multipliers[profile.activityLevel], 1000))
  ELSE NaN

\* calculateBMR of the frontend, in hundredths of a kcal: no unit
\* conversion and no rounding.
calculateBMR(weight, height, age, gender) ==
  IF gender = "male"
  THEN 1000 * weight + 625 * height - 500 * age + 500
  ELSE 1000 * weight + 625 * height - 500 * age - 16100

\* calculateTDEE of the frontend: multipliers[activityLevel] || 1.2
calculateTDEE(bmr, activityLevel) ==
  Finite(RoundDiv(bmr * (IF activityLevel \in DOMAIN multipliers
                         THEN multipliers[activityLevel] ELSE 1200), E5(1)))

\* user.generateBMR() on a document built by new User(...)
GenerateBMR ==
  /\ \E p \in Profiles, now \in CurrentYears :
       calc' = [fn |-> "generateBMR", profile |-> p, now |-> now,
                result |-> Finite(generateBMR(p, now))]
  /\ UNCHANGED nonCalcVars

\* user.generateTDEE() on a document built by new User(...)
GenerateTDEE ==
  /\ \E p \in Profiles, now \in CurrentYears :
       calc' = [fn |-> "generateTDEE", profile |-> p, now |-> now,
                result |-> generateTDEE(p, now)]
  /\ UNCHANGED nonCalcVars

\* Profile page: calculateBMR(weight, height, age, 'male'), then
\* calculateTDEE(bmr, activityLevel) on the profile form's values.
ProfileTDEE ==
  /\ \E w \in {70, 75}, h \in {175, 180}, age \in {28, 34}, l \in LevelParams :
       LET bmr == calculateBMR(w, h, age, "male")
       IN  calc' = [fn |-> "calculateTDEE",
                    profile |-> [weight |-> w, height |-> h, age |-> age,
                                 gender |-> "male", activityLevel |-> l],
                    bmr |-> bmr, result |-> calculateTDEE(bmr, l)]
  /\ UNCHANGED nonCalcVars

CalcNext == GenerateBMR \/ GenerateTDEE \/ ProfileTDEE

CalcSpec == Init /\ [][CalcNext]_vars

\* -------------------------------------------------------------- MacroRing
\* Number.prototype.toFixed(0) of a value >= 0 given in thousandths: the
\* digits of the nearest integer (half up).
toFixed0(x) == RoundDiv(x, 1000)

\* Values the dashboard passes as current (a dailyTotals field) and as
\* target (a goalProgress target), in thousandths, and the units it uses.
CurrentParams ==
  { 0, 400, Milli(45), Milli(65), Milli(100), Milli(149) + 500, Milli(150),
    Milli(200), Milli(225) + 300, Milli(1450), Milli(2000), Milli(2500) }

TargetParams == { 0, Milli(65), Milli(150), Milli(250), Milli(2000) }

RingUnits == {"g", ""}

\* MacroRing: percentage is clamped to 100 by Math.min before it is used,
\* for the chart data and for the text alike.  The chart's share is kept as
\* the fraction n/d of the ring; a text is the sequence of its pieces, a
\* number standing for its digits.
MacroRing(current, target, unit) ==
  LET clamped == target > 0 /\ current >= target
      remaining == Max(target - current, 0)
  IN  [current |-> current, target |-> target, unit |-> unit,
       consumed |-> IF target > 0
                    THEN [n |-> IF clamped THEN target ELSE current, d |-> target]
                    ELSE [n |-> 0, d |-> 1],
       center |-> RoundDiv(current, 1000),
       remainingText |-> <<toFixed0(remaining), unit, " remaining">>,
       percentageText |->
         << IF target > 0
            THEN (IF clamped THEN 100 ELSE RoundDiv(current * 100, target))
            ELSE 0,
            "% of ", target, unit >>]

\* The dashboard renders a ring.
RenderMacroRing ==
  /\ \E current \in CurrentParams, target \in TargetParams, unit \in RingUnits :
       ring' = MacroRing(current, target, unit)
  /\ UNCHANGED nonRingVars

RingNext == RenderMacroRing

RingSpec == Init /\ [][RingNext]_vars

\* -------------------------------------------------- lib/mongodb connectDB
\* The process runs one piece of JavaScript at a time.  A call of connectDB
\* runs up to its await; a promise settles in a task of its own and queues
\* the continuations of the callers awaiting it (its reactions), in the
\* order in which they began to wait; queued continuations run before any
\* other task starts.
\* Promises are numbered in the order of their creation; the connection
\* obtained from promise p is [from |-> p].

\* connectDB up to the await: the cached connection is returned if there is
\* one; otherwise mongoose.connect is called unless a promise is cached, and
\* the caller awaits the cached promise (its continuation joins the
\* promise's reactions, or the microtask queue if the promise has settled).
\* A caller calls again only after its previous call has returned or thrown.
Call(c) ==
  /\ microtasks = <<>>
  /\ caller[c].pc # "awaiting"
  /\ IF cached.conn # NullDoc
     THEN /\ caller' = [caller EXCEPT ![c] = [pc |-> "returned", promise |-> 0,
                                              conn |-> cached.conn]]
          /\ UNCHANGED <<cached, attempt, microtasks>>
     ELSE IF cached.promise = 0
     THEN /\ Len(attempt) < MaxAttempts
          /\ attempt' = Append(attempt, [state |-> "pending", reactions |-> <<c>>])
          /\ cached' = [cached EXCEPT !.promise = Len(attempt) + 1]
          /\ caller' = [caller EXCEPT ![c] = [pc |-> "awaiting",
                                              promise |-> Len(attempt) + 1,
                                              conn |-> NullDoc]]
          /\ UNCHANGED microtasks
     ELSE /\ caller' = [caller EXCEPT ![c] = [pc |-> "awaiting",
                                              promise |-> cached.promise,
                                              conn |-> NullDoc]]
          /\ IF attempt[cached.promise].state = "pending"
             THEN /\ attempt' = [attempt EXCEPT ![cached.promise].reactions = Append(@, c)]
                  /\ UNCHANGED microtasks
             ELSE /\ microtasks' = Append(microtasks, c)
                  /\ UNCHANGED attempt
          /\ UNCHANGED cached
  /\ UNCHANGED nonConnVars

\* The promise of mongoose.connect settles, fulfilled with the connection
\* or rejected, in a task of its own; its reactions are queued.
Settle(p, outcome) ==
  /\ microtasks = <<>>
  /\ attempt[p].state = "pending"
  /\ attempt' = [attempt EXCEPT ![p] = [state |-> outcome, reactions |-> <<>>]]
  /\ microtasks' = attempt[p].reactions
  /\ UNCHANGED <<cached, caller>>
  /\ UNCHANGED nonConnVars

\* Mutant: the catch block rethrows without clearing cached.promise.
Resume_KeepPromise ==
  /\ microtasks # <<>>
  /\ LET c == Head(microtasks)
         p == caller[c].promise
     IN  IF attempt[p].state = "fulfilled"
         THEN /\ cached' = [cached EXCEPT !.conn = [from |-> p]]
              /\ caller' = [caller EXCEPT ![c].pc = "returned", ![c].conn = [from |-> p]]
         ELSE /\ cached' = cached
              /\ caller' = [caller EXCEPT ![c].pc = "thrown"]
  /\ microtasks' = Tail(microtasks)
  /\ UNCHANGED attempt
  /\ UNCHANGED nonConnVars

\* connectDB after the await, for the caller whose continuation is next:
\* cached.conn is set and returned, or the catch block clears
\* cached.promise and rethrows.
Resume ==
  /\ microtasks # <<>>
  /\ LET c == Head(microtasks)
         p == caller[c].promise
     IN  IF attempt[p].state = "fulfilled"
         THEN /\ cached' = [cached EXCEPT !.conn = [from |-> p]]
              /\ caller' = [caller EXCEPT ![c].pc = "returned", ![c].conn = [from |-> p]]
         ELSE /\ cached' = [cached EXCEPT !.promise = 0]
              /\ caller' = [caller EXCEPT ![c].pc = "thrown"]
  /\ microtasks' = Tail(microtasks)
  /\ UNCHANGED attempt
  /\ UNCHANGED nonConnVars

ConnNext ==
  \/ \E c \in Callers : Call(c)
  \/ \E p \in 1..Len(attempt) : Settle(p, "fulfilled")
  \/ \E p \in 1..Len(attempt) : Settle(p, "rejected")
  \/ Resume

ConnSpec == Init /\ [][ConnNext]_vars

\* ------------------------------------------- contexts/AuthContext (React)
\* Users and tokens the API can answer with, and error messages.
ApiUsers == { [id |-> "u1"], [id |-> "u2"] }

ApiTokens == { [jwt |-> "t1"], [jwt |-> "t2"] }

\* Statuses with which the API can refuse a request of each operation.
ErrorStatuses(op) ==
  IF op = "login" THEN {400, 401, 500}
  ELSE IF op = "register" THEN {400, 500}
  ELSE {401, 404, 500}

\* Mutant: LOGOUT leaves the token in the state.
authReducer_KeepToken(state, action) ==
  CASE action.type = "LOGIN_START" ->
         [state EXCEPT !.isLoading = TRUE, !.error = NullDoc]
    [] action.type = "LOGIN_SUCCESS" ->
         [state EXCEPT !.user = action.payload.user, !.token = action.payload.token,
                       !.isAuthenticated = TRUE, !.isLoading = FALSE, !.error = NullDoc]
    [] action.type = "LOGIN_FAILURE" ->
         [state EXCEPT !.user = NullDoc, !.token = NullDoc, !.isAuthenticated = FALSE,
                       !.isLoading = FALSE, !.error = action.payload]
    [] action.type = "LOGOUT" ->
         [state EXCEPT !.user = NullDoc, !.isAuthenticated = FALSE,
                       !.isLoading = FALSE, !.error = NullDoc]
    [] action.type = "SET_LOADING" -> [state EXCEPT !.isLoading = action.payload]
    [] action.type = "SET_USER" -> [state EXCEPT !.user = action.payload]
    [] action.type = "CLEAR_ERROR" -> [state EXCEPT !.error = NullDoc]
    [] OTHER -> state

\* authReducer of contexts/AuthContext
authReducer(state, action) ==
  CASE action.type = "LOGIN_START" ->
         [state EXCEPT !.isLoading = TRUE, !.error = NullDoc]
    [] action.type = "LOGIN_SUCCESS" ->
         [state EXCEPT !.user = action.payload.user, !.token = action.payload.token,
                       !.isAuthenticated = TRUE, !.isLoading = FALSE, !.error = NullDoc]
    [] action.type = "LOGIN_FAILURE" ->
         [state EXCEPT !.user = NullDoc, !.token = NullDoc, !.isAuthenticated = FALSE,
                       !.isLoading = FALSE, !.error = action.payload]
    [] action.type = "LOGOUT" ->
         [state EXCEPT !.user = NullDoc, !.token = NullDoc, !.isAuthenticated = FALSE,
                       !.isLoading = FALSE, !.error = NullDoc]
    [] action.type = "SET_LOADING" -> [state EXCEPT !.isLoading = action.payload]
    [] action.type = "SET_USER" -> [state EXCEPT !.user = action.payload]
    [] action.type = "CLEAR_ERROR" -> [state EXCEPT !.error = NullDoc]
    [] OTHER -> state

\* dispatch of AuthProvider
dispatch(action) == authState' = authReducer(authState, action)

\* checkAuthStatus is between its catch block and its finally block: the
\* two dispatches follow each other with nothing in between.
Busy == authCalls["checkAuthStatus"].pc = "finally"

\* Response interceptor of apiService on an error: a 401 removes the stored
\* token.
Intercepted(st) == IF st = 401 THEN NullDoc ELSE localStorage

\* login / register up to the await: LOGIN_START
LoginStart(op) ==
  /\ op \in {"login", "register"}
  /\ ~Busy
  /\ authCalls[op].pc = "idle"
  /\ dispatch([type |-> "LOGIN_START"])
  /\ authCalls' = [authCalls EXCEPT ![op].pc = "awaiting"]
  /\ UNCHANGED <<localStorage, appAuth>>
  /\ UNCHANGED nonUiAuthVars

\* login / register after the await, the API having answered 200 / 201
\* with a user and a token: LOGIN_SUCCESS, and the token is stored.
LoginFulfilled(op) ==
  /\ op \in {"login", "register"}
  /\ ~Busy
  /\ authCalls[op].pc = "awaiting"
  /\ \E u \in ApiUsers, t \in ApiTokens :
       /\ dispatch([type |-> "LOGIN_SUCCESS", payload |-> [user |-> u, token |-> t]])
       /\ localStorage' = t
  /\ authCalls' = [authCalls EXCEPT ![op].pc = "idle"]
  /\ UNCHANGED appAuth
  /\ UNCHANGED nonUiAuthVars

\* login / register after the await, the request having failed:
\* LOGIN_FAILURE with the message, and the error is thrown again.
LoginRejected(op) ==
  /\ op \in {"login", "register"}
  /\ ~Busy
  /\ authCalls[op].pc = "awaiting"
  /\ \E st \in ErrorStatuses(op) :
       /\ localStorage' = Intercepted(st)
       /\ dispatch([type |-> "LOGIN_FAILURE", payload |-> [message |-> st]])
  /\ authCalls' = [authCalls EXCEPT ![op].pc = "idle"]
  /\ UNCHANGED appAuth
  /\ UNCHANGED nonUiAuthVars

\* logout
Logout ==
  /\ ~Busy
  /\ localStorage' = NullDoc
  /\ dispatch([type |-> "LOGOUT"])
  /\ UNCHANGED <<authCalls, appAuth>>
  /\ UNCHANGED nonUiAuthVars

\* setUser(user: User)
SetUser ==
  /\ ~Busy
  /\ \E u \in ApiUsers : dispatch([type |-> "SET_USER", payload |-> u])
  /\ UNCHANGED <<localStorage, authCalls, appAuth>>
  /\ UNCHANGED nonUiAuthVars

\* clearError
ClearError ==
  /\ ~Busy
  /\ dispatch([type |-> "CLEAR_ERROR"])
  /\ UNCHANGED <<localStorage, authCalls, appAuth>>
  /\ UNCHANGED nonUiAuthVars

\* checkAuthStatus up to the await (run on mount, and callable through the
\* context): without a stored token SET_LOADING false and return.
CheckStart ==
  /\ ~Busy
  /\ authCalls["checkAuthStatus"].pc = "idle"
  /\ IF localStorage = NullDoc
     THEN /\ dispatch([type |-> "SET_LOADING", payload |-> FALSE])
          /\ UNCHANGED authCalls
     ELSE /\ authCalls' = [authCalls EXCEPT !["checkAuthStatus"] =
                             [pc |-> "awaiting", token |-> localStorage]]
          /\ UNCHANGED authState
  /\ UNCHANGED <<localStorage, appAuth>>
  /\ UNCHANGED nonUiAuthVars

\* checkAuthStatus after the await, api/auth/me having answered with the
\* user: LOGIN_SUCCESS with the token read before the await.
CheckFulfilled ==
  /\ authCalls["checkAuthStatus"].pc = "awaiting"
  /\ \E u \in ApiUsers :
       dispatch([type |-> "LOGIN_SUCCESS",
                 payload |-> [user |-> u, token |-> authCalls["checkAuthStatus"].token]])
  /\ authCalls' = [authCalls EXCEPT !["checkAuthStatus"].pc = "finally"]
  /\ UNCHANGED <<localStorage, appAuth>>
  /\ UNCHANGED nonUiAuthVars

\* checkAuthStatus after the await, the request having failed: the token is
\* removed and LOGOUT dispatched.
CheckRejected ==
  /\ authCalls["checkAuthStatus"].pc = "awaiting"
  /\ \E st \in ErrorStatuses("checkAuthStatus") :
       /\ localStorage' = NullDoc
       /\ dispatch([type |-> "LOGOUT"])
  /\ authCalls' = [authCalls EXCEPT !["checkAuthStatus"].pc = "finally"]
  /\ UNCHANGED appAuth
  /\ UNCHANGED nonUiAuthVars

\* checkAuthStatus, finally block: SET_LOADING false
CheckFinally ==
  /\ authCalls["checkAuthStatus"].pc = "finally"
  /\ dispatch([type |-> "SET_LOADING", payload |-> FALSE])
  /\ authCalls' = [authCalls EXCEPT !["checkAuthStatus"] = [pc |-> "idle", token |-> NullDoc]]
  /\ UNCHANGED <<localStorage, appAuth>>
  /\ UNCHANGED nonUiAuthVars

\* The page is loaded again (by the user, or by the interceptor's redirect
\* to /login): AuthProvider starts from initialState, pending calls are
\* dropped, the stored token stays.
PageLoad ==
  /\ ~Busy
  /\ authState # initialState
  /\ authState' = initialState
  /\ authCalls' = [op \in AuthOps |-> [pc |-> "idle", token |-> NullDoc]]
  /\ UNCHANGED <<localStorage, appAuth>>
  /\ UNCHANGED nonUiAuthVars

\* ------------------------------------- AuthProvider of the single-file app
\* authReducer of macrotrack-complete
authReducerTsx(state, action) ==
  CASE action.type = "LOGIN" ->
         [state EXCEPT !.user = action.payload.user, !.token = action.payload.token,
                       !.isAuthenticated = TRUE, !.isLoading = FALSE]
    [] action.type = "LOGOUT" ->
         [state EXCEPT !.user = NullDoc, !.token = NullDoc, !.isAuthenticated = FALSE,
                       !.isLoading = FALSE]
    [] action.type = "SET_LOADING" -> [state EXCEPT !.isLoading = action.payload]
    [] OTHER -> state

\* AuthForm.handleSubmit: login(mockUser, 'mock-token') with the email typed
\* into the form.
AppLogin ==
  /\ \E email \in {"", "john@example.com"} :
       appAuth' = authReducerTsx(appAuth,
                    [type |-> "LOGIN",
                     payload |-> [user |-> [id |-> "1", email |-> email],
                                  token |-> [jwt |-> "mock-token"]]])
  /\ UNCHANGED <<authState, localStorage, authCalls>>
  /\ UNCHANGED nonUiAuthVars

\* logout of the single-file app
AppLogout ==
  /\ appAuth' = authReducerTsx(appAuth, [type |-> "LOGOUT"])
  /\ UNCHANGED <<authState, localStorage, authCalls>>
  /\ UNCHANGED nonUiAuthVars

UiAuthNext ==
  \/ \E op \in AuthOps : LoginStart(op)
  \/ \E op \in AuthOps : LoginFulfilled(op)
  \/ \E op \in AuthOps : LoginRejected(op)
  \/ Logout
  \/ SetUser
  \/ ClearError
  \/ CheckStart
  \/ CheckFulfilled
  \/ CheckRejected
  \/ CheckFinally
  \/ PageLoad
  \/ AppLogin
  \/ AppLogout

UiAuthSpec == Init /\ [][UiAuthNext]_vars

\* ------------------------------------------- MealLogger and FoodSearch
\* Search results the user picks from: the one result of searchFoods for
\* the query 'chicken'.
SearchResults == { [id |-> 1, name |-> "Chicken Breast"] }

\* Amounts in grams the amount controls set.
AmountChoices == {50, 100, 150}

\* mockNutrition of mockApiService.getFoodDetails, per 100 g, in tenths of
\* a unit (3.6 g is 36).
mockNutritionTsx ==
  [ i \in 1..6 |->
      CASE i = 1 -> [calories |-> 1650, protein |-> 310, carbohydrates |-> 0, fat |-> 36, fiber |-> 0]
        [] i = 2 -> [calories |-> 1230, protein |-> 26, carbohydrates |-> 230, fat |-> 9, fiber |-> 18]
        [] i = 3 -> [calories |-> 340, protein |-> 28, carbohydrates |-> 70, fat |-> 4, fiber |-> 26]
        [] i = 4 -> [calories |-> 2080, protein |-> 250, carbohydrates |-> 0, fat |-> 120, fiber |-> 0]
        [] i = 5 -> [calories |-> 590, protein |-> 100, carbohydrates |-> 36, fat |-> 4, fiber |-> 0]
        [] i = 6 -> [calories |-> 680, protein |-> 24, carbohydrates |-> 120, fat |-> 14, fiber |-> 17] ]

\* mockApiService.getFoodDetails: the per-100 g record scaled by
\* amount / 100, calories rounded to a whole number and the rest to one
\* decimal; values returned in thousandths.
getFoodDetails(id, amount) ==
  LET baseNutrition == IF id \in DOMAIN mockNutritionTsx THEN mockNutritionTsx[id]
                       ELSE mockNutritionTsx[1]
  IN  [food |->
        [id |-> id,
         nutrition |->
           [calories      |-> Milli(RoundDiv(baseNutrition.calories * amount, 1000)),
            protein       |-> 100 * RoundDiv(baseNutrition.protein * amount, 100),
            carbohydrates |-> 100 * RoundDiv(baseNutrition.carbohydrates * amount, 100),
            fat           |-> 100 * RoundDiv(baseNutrition.fat * amount, 100),
            fiber         |-> 100 * RoundDiv(baseNutrition.fiber * amount, 100)]]]

TotalFields == {"calories", "protein", "carbohydrates", "fat"}

\* MealLogger totalNutrition: the reduce over selectedFoods, each food's
\* nutrition multiplied by food.amount / 100.
RECURSIVE totalNutrition(_)
totalNutrition(foods) ==
  IF foods = <<>> THEN [f \in TotalFields |-> 0]
  ELSE LET totals == totalNutrition(SubSeq(foods, 1, Len(foods) - 1))
           food == foods[Len(foods)]
       IN  [f \in TotalFields |-> totals[f] + (food.nutrition[f] * food.amount) \div 100]

\* FoodSearch as mounted: nothing selected, 100 g, no details.
FoodSearchMounted ==
  [selectedFood |-> NullDoc, amount |-> 100, foodDetails |-> NullDoc, pending |-> {}]

\* Effect on [selectedFood, amount]: without a selected food the details
\* are cleared; otherwise getFoodDetails is called for the selected food
\* and the amount, and its answer comes later.
DetailsEffect(fs) ==
  IF fs.selectedFood = NullDoc
  THEN [fs EXCEPT !.foodDetails = NullDoc]
  ELSE [fs EXCEPT !.pending = @ \cup {[id |-> fs.selectedFood.id, amount |-> fs.amount]}]

\* 'Add Food' / 'Cancel': FoodSearch is mounted or unmounted; unmounted, its
\* state is gone and answers still to come are dropped.
ToggleFoodSearch ==
  /\ foodSearch' = IF foodSearch = NullDoc THEN FoodSearchMounted ELSE NullDoc
  /\ UNCHANGED <<selectedFoods, isLoading>>
  /\ UNCHANGED nonLoggerVars

\* FoodSearch.handleFoodSelect on a search result, or the close button of
\* the details card (setSelectedFood(null)); then the effect.
SelectFood ==
  /\ foodSearch # NullDoc
  /\ \E food \in SearchResults \cup {NullDoc} :
       /\ food # foodSearch.selectedFood
       /\ foodSearch' = DetailsEffect([foodSearch EXCEPT !.selectedFood = food])
  /\ UNCHANGED <<selectedFoods, isLoading>>
  /\ UNCHANGED nonLoggerVars

\* An amount control of the details card: setAmount; then the effect.
SetAmount ==
  /\ foodSearch # NullDoc
  /\ foodSearch.selectedFood # NullDoc
  /\ \E a \in AmountChoices :
       /\ a # foodSearch.amount
       /\ foodSearch' = DetailsEffect([foodSearch EXCEPT !.amount = a])
  /\ UNCHANGED <<selectedFoods, isLoading>>
  /\ UNCHANGED nonLoggerVars

\* A getFoodDetails call answers: setFoodDetails(details).
DetailsArrive ==
  /\ foodSearch # NullDoc
  /\ \E call \in foodSearch.pending :
       foodSearch' = [foodSearch EXCEPT !.pending = @ \ {call},
                                        !.foodDetails = getFoodDetails(call.id, call.amount)]
  /\ UNCHANGED <<selectedFoods, isLoading>>
  /\ UNCHANGED nonLoggerVars

\* FoodSearch.handleAddFood, with MealLogger.handleFoodSelect as
\* onFoodSelect: the food is appended with the details held and the amount
\* shown, and FoodSearch is hidden.
AddFood ==
  /\ foodSearch # NullDoc
  /\ foodSearch.foodDetails # NullDoc
  /\ foodSearch.selectedFood # NullDoc
  /\ Len(selectedFoods) < MaxFoods
  /\ selectedFoods' = Append(selectedFoods,
                        [id |-> foodSearch.foodDetails.food.id,
                         nutrition |-> foodSearch.foodDetails.food.nutrition,
                         name |-> foodSearch.selectedFood.name,
                         amount |-> foodSearch.amount,
                         unit |-> "grams"])
  /\ foodSearch' = NullDoc
  /\ UNCHANGED isLoading
  /\ UNCHANGED nonLoggerVars

\* MealLogger.handleRemoveFood
RemoveFood ==
  /\ \E index \in 1..Len(selectedFoods) :
       selectedFoods' = SubSeq(selectedFoods, 1, index - 1)
                        \o SubSeq(selectedFoods, index + 1, Len(selectedFoods))
  /\ UNCHANGED <<foodSearch, isLoading>>
  /\ UNCHANGED nonLoggerVars

\* MealLogger.handleSaveMeal up to the await
SaveMealStart ==
  /\ ~isLoading
  /\ selectedFoods # <<>>
  /\ isLoading' = TRUE
  /\ UNCHANGED <<foodSearch, selectedFoods>>
  /\ UNCHANGED nonLoggerVars

\* MealLogger.handleSaveMeal after the await: the list is emptied.
SaveMealDone ==
  /\ isLoading
  /\ selectedFoods' = <<>>
  /\ isLoading' = FALSE
  /\ UNCHANGED foodSearch
  /\ UNCHANGED nonLoggerVars

LoggerNext ==
  \/ ToggleFoodSearch
  \/ SelectFood
  \/ SetAmount
  \/ DetailsArrive
  \/ AddFood
  \/ RemoveFood
  \/ SaveMealStart
  \/ SaveMealDone

LoggerSpec == Init /\ [][LoggerNext]_vars

\* ------------------------------------------------------------ properties
MealFields == {"calories", "protein", "carbohydrates", "fat", "fiber"}

ProgressFields == {"calories", "protein", "carbohydrates", "fat"}

RECURSIVE SeqSum(_)
SeqSum(q) == IF q = <<>> THEN 0 ELSE q[1] + SeqSum(Tail(q))

\* Sum of one actualNutrition field over a food list.
FoodSum(foods, f) == SeqSum([k \in 1..Len(foods) |-> foods[k].actualNutrition[f]])

StoreIds == 1..Len(store)

AllDone == \A s \in Sessions : pc[s] \in {"done", "failed"}

\* The goal a progress record of nutrient n is measured against.
GoalOf(goals, n) == IF n = "calories" THEN goals.dailyCalories ELSE goals.macroTargets[n]

\* C1: in every persisted DayEntry each meal's mealTotals equals, field by
\* field, the sum of actualNutrition over that meal's foods (zero for an
\* empty food list).
C1_MealTotalsAreFoodSums ==
  \A i \in StoreIds : \A m \in 1..Len(store[i].meals) : \A f \in MealFields :
    store[i].meals[m].mealTotals[f] = FoodSum(store[i].meals[m].foods, f)

\* A request has stored a two-food meal (700 kcal) and another an empty meal.
C1_Witness ==
  /\ \E i \in StoreIds : \E m \in 1..Len(store[i].meals) :
       /\ Len(store[i].meals[m].foods) = 2
       /\ store[i].meals[m].mealTotals.calories = Milli(700)
  /\ \E i \in StoreIds : \E m \in 1..Len(store[i].meals) :
       /\ store[i].meals[m].foods = <<>>
       /\ store[i].meals[m].mealTotals = ZeroMealTotals
  /\ \E s \in Sessions : pc[s] = "done"

\* C2: in every persisted DayEntry dailyTotals equals, field by field, the
\* sum over the meals of mealTotals, the mealTotals being those refreshed
\* from the foods (so it also equals the sum over all foods of the day).
C2_DailyTotalsAreMealSums ==
  \A i \in StoreIds : \A f \in MealFields :
    LET ms == store[i].meals
    IN  /\ store[i].dailyTotals[f] = SeqSum([m \in 1..Len(ms) |-> ms[m].mealTotals[f]])
        /\ store[i].dailyTotals[f] = SeqSum([m \in 1..Len(ms) |-> FoodSum(ms[m].foods, f)])

\* An entry written by a request holds three meals with non-zero totals.
C2_Witness ==
  \E i \in StoreIds :
    /\ lastSaver[i] \in Sessions
    /\ Len(store[i].meals) >= 3
    /\ \A m \in 1..Len(store[i].meals) : store[i].meals[m].mealTotals.calories > 0
    /\ store[i].dailyTotals.calories >= Milli(1000)

\* x rounded to two decimals (x in thousandths, half up).
RoundTo2(x) == ((x + 5) \div 10) * 10

\* All foods of a day, summed for one field.
DaySum(meals, f) == SeqSum([m \in 1..Len(meals) |-> FoodSum(meals[m].foods, f)])

\* C3: when a request finds an entry that already holds a meal of the
\* submitted mealType, the first save leaves that meal with exactly the
\* submitted foods, every other meal as it was, and dailyTotals counting the
\* new meal only; the second save changes neither meals nor dailyTotals.
C3_ReplaceNotMerge ==
  [][\A s \in Sessions :
       /\ ( /\ pc[s] = "built" /\ pc'[s] = "saved" /\ mealEntry[s].id # 0
            /\ \E k \in 1..Len(store[mealEntry[s].id].meals) :
                 store[mealEntry[s].id].meals[k].mealType = req[s].mealType )
          => LET old == store[mealEntry[s].id]
                 new == store'[mealEntry[s].id]
                 t   == req[s].mealType
             IN  /\ Len(new.meals) = Len(old.meals)
                 /\ \A k \in 1..Len(old.meals) :
                      IF old.meals[k].mealType = t
                      THEN /\ new.meals[k].mealType = t
                           /\ new.meals[k].foods = req[s].foods
                      ELSE new.meals[k] = old.meals[k]
                 /\ \A f \in MealFields :
                      new.dailyTotals[f] =
                        SeqSum([k \in 1..Len(old.meals) |->
                                  IF old.meals[k].mealType = t
                                  THEN FoodSum(req[s].foods, f)
                                  ELSE old.meals[k].mealTotals[f]])
       /\ (pc[s] = "reloaded" /\ pc'[s] = "done")
          => /\ store'[mealEntry[s].id].meals = store[mealEntry[s].id].meals
             /\ store'[mealEntry[s].id].dailyTotals = store[mealEntry[s].id].dailyTotals
    ]_vars

\* Day 1: a breakfast of 300 kcal, then a new breakfast of 400 kcal; the
\* entry holds one meal and dailyTotals.calories is 400, not 700.
C3_Witness ==
  \E s, t \in Sessions :
    /\ pc[t] = "done" /\ pc[s] = "done"
    /\ req[t] = [userId |-> "u1", date |-> [day |-> 1, time |-> 1],
                 mealType |-> "breakfast", foods |-> <<Oatmeal>>]
    /\ req[s].mealType = "breakfast" /\ req[s].foods = <<Eggs>>
    /\ mealEntry[t].id = mealEntry[s].id
    /\ lastSaver[mealEntry[s].id] = s
    /\ Len(store[mealEntry[s].id].meals) = 1
    /\ store[mealEntry[s].id].meals[1].foods = <<Eggs>>
    /\ store[mealEntry[s].id].dailyTotals.calories = Milli(400)

\* C4: an entry returned by getDailySummary never carries a goalProgress
\* that lags its dailyTotals: actual is dailyTotals rounded to two decimals.
C4_NoStaleGoalProgress ==
  (summary # NullDoc /\ ~summary.isEmpty)
    => \A n \in ProgressFields :
         summary.mealEntry.goalProgress[n].actual = RoundTo2(summary.mealEntry.dailyTotals[n])

\* C5: the step that completes addOrReplaceMeal answers 201 with the entry it
\* leaves persisted, whose goalProgress has target = the user's goal and
\* actual = the recomputed dailyTotals rounded to two decimals.
C5_ProgressOnCompletion ==
  [][\A s \in Sessions :
       (pc[s] = "reloaded" /\ pc'[s] = "done")
         => LET d == savedMealEntry'[s]
            IN  /\ status'[s] = 201
                /\ store'[mealEntry[s].id] = d
                /\ \A f \in MealFields : d.dailyTotals[f] = DaySum(d.meals, f)
                /\ \A n \in ProgressFields :
                     /\ d.goalProgress[n].target = GoalOf(users[req[s].userId], n)
                     /\ d.goalProgress[n].actual = RoundTo2(d.dailyTotals[n])
    ]_vars

\* A completed request whose entry has 24.996 g of protein, reported as 25.00.
C5_Witness ==
  \E s \in Sessions :
    /\ pc[s] = "done" /\ status[s] = 201
    /\ savedMealEntry[s].dailyTotals.protein = 24996
    /\ savedMealEntry[s].goalProgress.protein.actual = Milli(25)
    /\ savedMealEntry[s].goalProgress.calories.target = Milli(2000)
    /\ store[mealEntry[s].id] = savedMealEntry[s]

\* C6: every stored GoalProgress record satisfies, on its own fields,
\* percentage = round(actual / target * 100) (0 when target is 0) and
\* remaining = max(target - actual, 0).
C6_RecordFormulas ==
  \A i \in StoreIds : \A n \in ProgressFields :
    LET g == store[i].goalProgress[n]
    IN  /\ g.percentage =
             (IF g.target > 0 THEN (200 * g.actual + g.target) \div (2 * g.target) ELSE 0)
        /\ g.remaining = (IF g.target - g.actual > 0 THEN g.target - g.actual ELSE 0)

\* Every GoalProgress record held by the store, by a request or by a
\* getDailySummary response.
ProgressRecords ==
  { store[i].goalProgress[n] : i \in StoreIds, n \in ProgressFields }
    \cup { savedMealEntry[s].goalProgress[n] :
             s \in { x \in Sessions : pc[x] \in {"reloaded", "done"} }, n \in ProgressFields }
    \cup { mealEntry[s].doc.goalProgress[n] :
             s \in { x \in Sessions : pc[x] \in {"built", "saved", "reloaded", "done"} },
             n \in ProgressFields }
    \cup (IF summary = NullDoc THEN {}
          ELSE { summary.mealEntry.goalProgress[n] : n \in ProgressFields })

C8_OneEntryPerUserDay ==
  \A i, j \in StoreIds :
    (store[i].userId = store[j].userId /\ store[i].date.day = store[j].date.day) => i = j

\* C9: a persisted DayEntry holds at most one meal per mealType, hence at
\* most four meals.
C9_OneMealPerType ==
  \A i \in StoreIds :
    /\ \A a, b \in 1..Len(store[i].meals) :
         store[i].meals[a].mealType = store[i].meals[b].mealType => a = b
    /\ Len(store[i].meals) <= Cardinality(MealTypes)

\* Both requests completed on the entry of day 2: one re-submitted lunch,
\* the other added dinner; the entry holds three meals.
C9_Witness ==
  \E s, t \in Sessions :
    /\ pc[s] = "done" /\ pc[t] = "done"
    /\ mealEntry[s].id = 1 /\ mealEntry[t].id = 1
    /\ req[s].mealType = "lunch" /\ req[t].mealType = "dinner"
    /\ Len(store[1].meals) = 3

C11_DuplicateIsConflict ==
  \A s \in Sessions :
    error[s] = "MongoServerError" =>
      /\ status[s] # 500
      /\ \E i \in StoreIds :
           /\ store[i].userId = req[s].userId /\ store[i].date = req[s].date
           /\ lastSaver[i] # s
           /\ Len(store[i].meals) = 1

\* scale(ref, amount, 100) of spec section 4.1 on the five fields of a food:
\* calories to the nearest integer, grams to one decimal.
ScaledPer100g(ref, amount) ==
  [f \in MealFields |->
     IF f = "calories" THEN ScaleRound0(ref[f], amount) ELSE ScaleRound1(ref[f], amount)]

\* C12: every food of every persisted DayEntry has actualNutrition equal to
\* its nutritionPer100g scaled to its amount; addOrReplaceMeal never persists
\* a food submitted with another actualNutrition.
C12_ActualIsScaled ==
  \A i \in StoreIds : \A m \in 1..Len(store[i].meals) :
    \A k \in 1..Len(store[i].meals[m].foods) :
      LET food == store[i].meals[m].foods[k]
      IN  food.actualNutrition = ScaledPer100g(food.nutritionPer100g, food.amount)

\* A food list with a food whose amount is outside [0.1, 10000] or whose
\* unit is not one of the enumerated units.
HasInvalidFood(foods) ==
  \E k \in 1..Len(foods) :
    \/ foods[k].amount < 100
    \/ foods[k].amount > Milli(10000)
    \/ foods[k].unit \notin Units

\* C13: a meal request with a food whose amount is outside [0.1, 10000] or
\* whose unit is not enumerated is rejected with status 400, and no step of
\* it changes the store: the entry of that day stays as it was, and none is
\* created if none existed.
C13_InvalidFoodRejected ==
  [][\A s \in Sessions :
       (pc'[s] # pc[s] /\ HasInvalidFood(req'[s].foods)) =>
         /\ store' = store
         /\ pc'[s] \in {"built", "failed"}
         /\ pc'[s] = "failed" => status'[s] = 400]_vars

\* The first request replaced the breakfast of day 2 by a food with an
\* unknown unit and failed validation on save; the second one sent 0.05 g
\* for day 1 and failed parsing; the store is still the seeded one.
C13_Witness ==
  /\ error[1] = "ValidationError" /\ status[1] = 400 /\ mealEntry[1].id = 1
  /\ req[1].foods = <<BadUnit>> /\ req[1].mealType = "breakfast"
  /\ error[2] = "ZodError" /\ status[2] = 400 /\ req[2].date.day = 1
  /\ req[2].foods = <<TinyAmount>>
  /\ store = <<SeedEntry>>

ProtectedOps == {"auth/me", "foods/search", "foods/[id]", "meals/daily", "meals"}

WellFormed(args) ==
  /\ args.token = "valid"
  /\ \/ args.op = "foods/search" /\ Len(args.query) >= 2
     \/ /\ args.op = "foods/[id]"
        /\ args.id \in {"1", "2", "6", "9", "99"}
        /\ args.amount \in {"", "100", "150"}

\* C16: for an authenticated, well-formed foods/search or foods/[id] request,
\* whenever the call to the external catalog fails (not found, rate limited
\* or any other error) the service answers with fallback data and the
\* endpoint answers 200, never 404, 429 or 500.
C16_CatalogFailureRecovered ==
  ("args" \in DOMAIN reply /\ WellFormed(reply.args)
     /\ ~reply.args.mockMode /\ reply.args.outcome # "ok") =>
    /\ reply.status = 200
    /\ reply.catalogCalled
    /\ reply.args.op = "foods/[id]" => reply.data.food.name = "Mock Food"
    /\ reply.args.op = "foods/search" =>
         \A k \in 1..Len(reply.data.results) :
           \E j \in 1..Len(mockFoods) : reply.data.results[k] = mockFoods[j]

\* The catalog answered 402 to a request for 150 g of food 2 and the
\* endpoint answered 200 with the fallback record.
C16_Witness ==
  /\ "args" \in DOMAIN reply
  /\ reply.args.op = "foods/[id]" /\ reply.args.token = "valid"
  /\ reply.args.id = "2" /\ reply.args.amount = "150"
  /\ ~reply.args.mockMode /\ reply.args.outcome = "RateLimited"
  /\ reply.status = 200 /\ reply.catalogCalled
  /\ reply.data.food.name = "Mock Food"

\* x (thousandths) is the multiple of `step` nearest to ref * amount / 100,
\* halves going up; ref and amount are thousandths and whole tenths.
NearestTo(x, step, ref, amount) ==
  LET n == (ref \div 100) * (amount \div 100)   \* ref * amount / 100, in 0.0001
      d == step * 10                            \* step, in 0.0001
  IN  /\ x % step = 0
      /\ 2 * (x \div step) * d <= 2 * n + d
      /\ 2 * n + d < 2 * ((x \div step) + 1) * d

\* C17: scaling a per-100 g record to an amount gives calories equal to
\* ref.calories * amount / 100 rounded to the nearest integer and every gram
\* value rounded to one decimal; {165, 31, 0, 3.6} at 150 g gives
\* {248, 46.5, 0, 5.4}.
C17_ScaleRounding ==
  ("args" \in DOMAIN reply /\ reply.args.op = "foods/[id]" /\ reply.status = 200
     /\ reply.data.food.name = "Mock Food"
     /\ reply.data.requestedAmount.kind = "finite") =>
    LET id == reply.data.food.id
        ref == IF id \in 1..Len(mockNutrition) THEN mockNutrition[id] ELSE mockNutrition[1]
        amount == reply.data.requestedAmount.v
        got == reply.data.food.nutrition
    IN  /\ NearestTo(got.calories, 1000, ref.calories, amount)
        /\ \A f \in NutritionFields \ {"calories"} : NearestTo(got[f], 100, ref[f], amount)
        /\ (id = 1 /\ amount = Milli(150)) =>
             /\ got.calories = Milli(248) /\ got.protein = 46500
             /\ got.carbohydrates = 0 /\ got.fat = 5400

\* Food 1 ({165, 31, 0, 3.6} per 100 g) was asked at 150 g in mock mode;
\* 247.5 kcal was rounded up to 248.
C17_Witness ==
  /\ "args" \in DOMAIN reply
  /\ reply.args.op = "foods/[id]" /\ reply.status = 200
  /\ reply.args.id = "1" /\ reply.args.amount = "150" /\ reply.args.mockMode
  /\ reply.data.food.nutrition.calories = Milli(248)
  /\ reply.data.food.nutrition.protein = 46500

\* C18: a food-details request whose amount is zero, negative or not
\* finite fails with InvalidAmount: status 400, code INVALID_AMOUNT, and no
\* nutrition record is produced for it.
C18_InvalidAmountFails ==
  ("args" \in DOMAIN reply /\ reply.args.op = "foods/[id]" /\ reply.args.token = "valid"
     /\ reply.args.id \in {"1", "2", "6", "9", "99"}
     /\ reply.args.amount \in {"0", "-50", "abc", "Infinity"}) =>
    /\ reply.status = 400
    /\ reply.code = "INVALID_AMOUNT"
    /\ reply.data = NullDoc

ExtendedFields == {"sugar", "sodium", "potassium", "calcium", "iron"}

\* The value a meal contributes to field f of the day: the field of its
\* mealTotals, 0 when absent.
MealValue(meal, f) ==
  IF f \in DOMAIN meal.mealTotals THEN meal.mealTotals[f] ELSE 0

\* C19: in every persisted DayEntry each extended field of dailyTotals
\* (sugar, sodium, potassium, calcium, iron) equals the sum over the day's
\* meals of that field, an absent value counting as 0.
C19_ExtendedTotals ==
  \A i \in StoreIds : \A f \in ExtendedFields :
    store[i].dailyTotals[f] =
      SeqSum([m \in 1..Len(store[i].meals) |-> MealValue(store[i].meals[m], f)])

\* A completed request left three non-empty meals in the entry of day 2;
\* its totals are positive and its extended fields are present.
C19_Witness ==
  /\ \E s \in Sessions : pc[s] = "done" /\ mealEntry[s].id = 1
  /\ Len(store[1].meals) = 3
  /\ \A m \in 1..3 : store[1].meals[m].mealTotals.calories > 0
  /\ store[1].dailyTotals.calories > 0
  /\ store[1].dailyTotals.sodium = 0

\* The foods of every meal of two documents are the same.
SameFoods(d, e) ==
  /\ Len(d.meals) = Len(e.meals)
  /\ \A m \in 1..Len(d.meals) : d.meals[m].foods = e.meals[m].foods

\* C20: recomputing totals is idempotent.  Running the save hook on any
\* persisted DayEntry gives back the mealTotals and dailyTotals it already
\* has, and the second save of addOrReplaceMeal, which changes no food,
\* leaves the stored mealTotals and dailyTotals identical: nothing is
\* accumulated.
C20_RecomputeIdempotent ==
  [][/\ \A i \in StoreIds :
          /\ PreSave(store[i]).meals = store[i].meals
          /\ PreSave(store[i]).dailyTotals = store[i].dailyTotals
     /\ \A s \in Sessions :
          (pc[s] = "reloaded" /\ pc'[s] = "done"
             /\ SameFoods(savedMealEntry[s], store[mealEntry[s].id])) =>
            /\ store'[mealEntry[s].id].meals = store[mealEntry[s].id].meals
            /\ store'[mealEntry[s].id].dailyTotals = store[mealEntry[s].id].dailyTotals]_vars

\* Both requests for day 1 have completed, one after the other; the entry
\* holds two meals with foods and has been saved four times.
C20_Witness ==
  /\ \A s \in Sessions : pc[s] = "done" /\ req[s].date.day = 1
  /\ Len(store) = 2 /\ Len(store[2].meals) = 2
  /\ store[2].meals[1].foods = <<Oatmeal, Eggs>>
  /\ store[2].meals[2].foods = <<Eggs>>
  /\ store[2].dailyTotals.calories = Milli(1100)
  /\ store[2].meals[1].mealTotals.calories = Milli(700)

\* Energy per gram of a macro nutrient, in kcal.
KcalPerGram(n) == IF n = "fat" THEN 9 ELSE 4

\* C21: in every persisted User each macro percentage is the macro target
\* times its energy per gram (4 for protein and carbohydrates, 9 for fat)
\* over the daily calories, times 100, rounded to the nearest integer (half
\* up); targets of 150 g, 250 g and 44 g at 2000 kcal give 30, 50 and 20.

C21_PercentagesMatchTargets ==
  \A i \in 1..Len(accounts) :
    LET g == accounts[i].goals
    IN  /\ \A n \in MacroNames :
             LET x == g.macroTargets[n] * KcalPerGram(n) * 100
                 p == g.macroPercentages[n]
             IN  /\ 2 * p * g.dailyCalories <= 2 * x + g.dailyCalories
                 /\ 2 * x + g.dailyCalories < 2 * (p + 1) * g.dailyCalories
        /\ (/\ g.dailyCalories = Milli(2000)
            /\ g.macroTargets = [protein |-> Milli(150), carbohydrates |-> Milli(250),
                                 fat |-> Milli(44)])
           => g.macroPercentages = [protein |-> 30, carbohydrates |-> 50, fat |-> 20]

\* A register request has stored the user of the percentage test, and the
\* user with the 30.5 % carbohydrate share is stored with 31 %.
C21_Witness ==
  /\ \E i \in 1..Len(accounts) :
       /\ accounts[i].lastLoginAt[1] = "register"
       /\ accounts[i].goals.macroPercentages =
            [protein |-> 30, carbohydrates |-> 50, fat |-> 20]
  /\ \E i \in 1..Len(accounts) :
       /\ accounts[i].goals.dailyCalories = Milli(1600)
       /\ accounts[i].goals.macroPercentages.carbohydrates = 31

\* The profile of the BMR test: male, 75 kg, 180 cm.
IsTestProfile(p) ==
  /\ p.gender = "male"
  /\ p.weight = [value |-> 75, unit |-> "kg"]
  /\ p.height = [value |-> 180, unit |-> "cm"]

C23_UnknownLevelIsSedentary ==
  (/\ calc # NullDoc
   /\ calc.fn \in {"generateTDEE", "calculateTDEE"}
   /\ calc.profile.activityLevel \notin DOMAIN multipliers)
  => /\ calc.result.kind = "finite"
     /\ calc.fn = "generateTDEE" =>
          LET x == generateBMR(calc.profile, calc.now) * 12
          IN  /\ 20 * calc.result.v <= 2 * x + 10
              /\ 2 * x + 10 < 20 * (calc.result.v + 1)
     /\ calc.fn = "calculateTDEE" =>
          LET x == calc.bmr * 12
          IN  /\ 2000 * calc.result.v <= 2 * x + 1000
              /\ 2 * x + 1000 < 2000 * (calc.result.v + 1)

\* Some stored user has this address (compared as stored, in lower case).
EmailTaken(email) == \E i \in 1..Len(accounts) : accounts[i].email = toLowerCase(email)

\* A register body that passes registerSchema and the schema validators.
RegisterBodyValid(body) ==
  registerSchema(body) /\ \A now \in CurrentYears : AgeValid(body.dateOfBirth, now)

\* C24: however register requests interleave, no two stored users have
\* the same email, and a register request (with an otherwise valid body)
\* answered while its email belongs to a stored user is answered 400 'User
\* already exists with this email' and creates no user.
C24_DuplicateEmailRefused ==
  [][/\ \A i, j \in 1..Len(accounts') :
          accounts'[i].email = accounts'[j].email => i = j
     /\ \A s \in Sessions :
          (/\ authReq[s].pc # "done"
           /\ authReq'[s].pc = "done"
           /\ authReq'[s].op = "register"
           /\ RegisterBodyValid(authReq'[s].body)
           /\ EmailTaken(authReq'[s].body.email))
          => /\ authReq'[s].status = 400
             /\ authReq'[s].error = "User already exists with this email"
             /\ accounts' = accounts]_vars

\* The answer to a login that is refused for its credentials.
InvalidCredentials ==
  [status |-> 401, error |-> "Invalid email or password",
   code |-> "INVALID_CREDENTIALS", token |-> NullDoc]

ResponseOf(r) == [status |-> r.status, error |-> r.error, code |-> r.code, token |-> r.token]

\* C25: a login whose email no stored user has and a login whose email is
\* stored but whose password is wrong get one and the same answer (401,
\* 'Invalid email or password', INVALID_CREDENTIALS), without a token, and
\* change no stored user; a stored user's lastLoginAt changes only in the
\* step in which a login with that user's email and password is answered
\* 200.
C25_FailedLoginsAlike ==
  [][/\ \A s \in Sessions :
          (/\ authReq[s].pc = "idle"
           /\ authReq'[s].op = "login"
           /\ loginSchema(authReq'[s].body)
           /\ \/ ~EmailTaken(authReq'[s].body.email)
              \/ \E i \in 1..Len(accounts) :
                   /\ accounts[i].email = toLowerCase(authReq'[s].body.email)
                   /\ accounts[i].password # hash(authReq'[s].body.password))
          => /\ authReq'[s].pc = "done"
             /\ ResponseOf(authReq'[s]) = InvalidCredentials
             /\ accounts' = accounts
     /\ \A i \in 1..Len(accounts) :
          accounts'[i].lastLoginAt # accounts[i].lastLoginAt
          => \E s \in Sessions :
               /\ authReq[s].pc # "done"
               /\ authReq'[s].pc = "done"
               /\ authReq'[s].op = "login"
               /\ authReq'[s].status = 200
               /\ authReq'[s].token # NullDoc
               /\ accounts[i].email = toLowerCase(authReq'[s].body.email)
               /\ accounts[i].password = hash(authReq'[s].body.password)
               /\ accounts' = [accounts EXCEPT ![i].lastLoginAt = accounts'[i].lastLoginAt]]_vars

\* One client was refused for an email nobody has, the other for a wrong
\* password on the seeded user's email, and the seeded user is as created.
C25_Witness ==
  /\ authReq[1].op = "login" /\ authReq[1].status = 401
  /\ authReq[1].body.email = EmailC
  /\ authReq[2].op = "login" /\ authReq[2].status = 401
  /\ authReq[2].body = [email |-> EmailAUpper, password |-> "hunter22"]
  /\ accounts = <<SeedUser>>

\* C26: the percentage a MacroRing shows as text is current/target*100
\* rounded to the nearest integer, above 100 too (200 of 150 g reads '133%
\* of 150g' and '0g remaining'), and 0 for a target of 0 ('0% of 0g'); the
\* share drawn in the ring never exceeds the whole ring.
C26_TextIsTruePercentage ==
  ring # NullDoc =>
    /\ ring.consumed.n <= ring.consumed.d
    /\ ring.percentageText[2] = "% of "
    /\ ring.percentageText[3] = ring.target
    /\ ring.percentageText[4] = ring.unit
    /\ ring.target = 0 => ring.percentageText[1] = 0
    /\ ring.target > 0 =>
         LET p == ring.percentageText[1]
         IN  /\ 2 * p * ring.target <= 200 * ring.current + ring.target
             /\ 200 * ring.current + ring.target < 2 * (p + 1) * ring.target
    /\ (ring.current = Milli(200) /\ ring.target = Milli(150) /\ ring.unit = "g")
         => /\ ring.percentageText = <<133, "% of ", Milli(150), "g">>
            /\ ring.remainingText = <<0, "g", " remaining">>

\* C27: however calls of connectDB interleave, at most one
\* mongoose.connect attempt is in flight; once a connection is cached a call
\* returns it and starts no attempt; and once the callers of a failed
\* attempt have been resumed no promise of a failed attempt stays cached,
\* so that the next call starts a fresh attempt.
C27_OneAttemptInFlight ==
  [][/\ Cardinality({p \in 1..Len(attempt') : attempt'[p].state = "pending"}) <= 1
     /\ cached.conn # NullDoc =>
          /\ cached'.conn = cached.conn
          /\ Len(attempt') = Len(attempt)
          /\ \A c \in Callers :
               caller'[c] # caller[c] =>
                 caller'[c].pc = "returned" /\ caller'[c].conn = cached.conn
     /\ (microtasks' = <<>> /\ cached'.promise # 0) =>
          attempt'[cached'.promise].state # "rejected"
     /\ \A c \in Callers :
          (/\ microtasks = <<>>
           /\ Len(attempt) > 0
           /\ \A p \in 1..Len(attempt) : attempt[p].state = "rejected"
           /\ caller[c].pc # "awaiting"
           /\ caller'[c].pc = "awaiting")
          => /\ Len(attempt') = Len(attempt) + 1
             /\ caller'[c].promise = Len(attempt')
             /\ attempt'[Len(attempt')].state = "pending"]_vars

\* The first attempt failed and its caller's call threw, a later call
\* started a second attempt, which connected, and a call after that was
\* served from the cache.
C27_Witness ==
  /\ Len(attempt) = 2
  /\ attempt[1].state = "rejected"
  /\ attempt[2].state = "fulfilled"
  /\ cached.conn = [from |-> 2]
  /\ caller[1].pc = "thrown" /\ caller[1].promise = 1
  /\ caller[2].pc = "returned" /\ caller[2].promise = 2
  /\ caller[3].pc = "returned" /\ caller[3].promise = 0

\* C28: in every state the auth reducer reaches through the actions
\* AuthProvider dispatches, isAuthenticated is true exactly when the token
\* is non-null, and a state with isAuthenticated has a non-null user; so for
\* the reducer of contexts/AuthContext as for that of the single-file app.
C28_AuthenticatedIffToken ==
  /\ authState.isAuthenticated <=> authState.token # NullDoc
  /\ authState.isAuthenticated => authState.user # NullDoc
  /\ appAuth.isAuthenticated <=> appAuth.token # NullDoc
  /\ appAuth.isAuthenticated => appAuth.user # NullDoc

\* checkAuthStatus has logged the user in with the token it read before a
\* logout removed it, and setUser has replaced the user since; the
\* single-file app is logged in too.
C28_Witness ==
  /\ authState.isAuthenticated
  /\ authState.token = [jwt |-> "t1"]
  /\ authState.user = [id |-> "u2"]
  /\ localStorage = NullDoc
  /\ authCalls["checkAuthStatus"].pc = "idle"
  /\ appAuth.isAuthenticated

\* C29: the MealLogger's meal totals are, field by field, the sum over the
\* foods of its list of the nutrition that getFoodDetails gives for the
\* food's id and its amount a: each food contributes its already scaled
\* value, scaled by a / 100 once, whatever a is.
C29_ScaledOnce ==
  \A f \in TotalFields :
    totalNutrition(selectedFoods)[f] =
      SeqSum([k \in 1..Len(selectedFoods) |->
                getFoodDetails(selectedFoods[k].id, selectedFoods[k].amount).food.nutrition[f]])

====
